---------------------------- MODULE Spec2Model ----------------------------
(***************************************************************************)
(* A model of APInFly: the Context compiler (api/APIContext.py), the query *)
(* translator (api/APIController.py), the MySQL provider's query call      *)
(* (db/providers/MySQL.py) and the REST resource for deletes               *)
(* (falc/FalconResources.py).                                              *)
(*                                                                         *)
(* A Python str is a sequence of one-character strings, so that `in`,      *)
(* replace, slicing and concatenation are computed as Python computes      *)
(* them.  A Python dict is a sequence of entries [k, v] in insertion       *)
(* order.  A dict value is a record tagged by t: "field" (a DatabaseField),*)
(* "dict" (a nested dict) or "val" (a scalar).                             *)
(***************************************************************************)
EXTENDS Integers, Sequences, FiniteSets, TLC

\* ------------------------------------------------------------ bounds

\* the largest number of rows a SELECT matches in the backend
MaxRows == 5
\* the largest page number a request asks for
MaxPage == 4
\* the largest number of parameters of one query-string
MaxArgs == 2
MaxDepth == 3
\* the largest number of rows of the backend's foreign-key listing
MaxRefRows == 2

\* ------------------------------------------------------------ str

\* the string literals of APIContext.py
Ctx ==
    [ branch |-> <<"_", "b", "r", "a", "n", "c", "h">>,
      dot |-> <<".">>,
      eq_t |-> <<" ", "=", " ", "t">>,
      select |-> <<"S", "E", "L", "E", "C", "T", " ", "\n", "\t">>,
      comma_sp |-> <<",", " ">>,
      from |-> <<" ", "\n", "F", "R", "O", "M", "\n", "\t">>,
      as |-> <<" ", "A", "S", " ">>,
      where |-> <<" ", "\n", "W", "H", "E", "R", "E", "\n", "\t">>,
      and |-> <<" ", "A", "N", "D", " ">>,
      insert |-> <<"I", "N", "S", "E", "R", "T", " ", "I", "N", "T", "O", " ">>,
      values |-> <<"\n", "V", "A", "L", "U", "E", "S", "\n", "(">>,
      quote |-> <<"'">>,
      quote_comma |-> <<"'", ",">>,
      comma |-> <<",">>,
      close |-> <<")", ";">>,
      object |-> <<"<DatabaseField object>">>,
      delete |-> <<"D", "E", "L", "E", "T", "E", " ", "F", "R", "O", "M", " ">>,
      del_where |-> <<" ", "W", "H", "E", "R", "E", " ">>,
      eq |-> <<"=">>,
      eq_quote |-> <<"=", "'">>,
      semi |-> <<";">> ]

\* the string literals of APIController.py
Ctl ==
    [ comp |-> <<"_", "c", "o", "m", "p">>,
      char |-> <<"c", "h", "a", "r">>,
      text |-> <<"t", "e", "x", "t">>,
      tinyint |-> <<"t", "i", "n", "y", "i", "n", "t">>,
      int |-> <<"i", "n", "t">>,
      float |-> <<"f", "l", "o", "a", "t">>,
      real |-> <<"r", "e", "a", "l">>,
      varchar |-> <<"v", "a", "r", "c", "h", "a", "r">>,
      PRI |-> <<"P", "R", "I">>,
      order_by |-> <<"o", "r", "d", "e", "r", "_", "b", "y">>,
      order_dir |-> <<"o", "r", "d", "e", "r", "_", "d", "i", "r">>,
      page |-> <<"p", "a", "g", "e">>,
      q |-> <<"q">>,
      join_and |-> <<" ", "\n", "\t", "A", "N", "D", " ">>,
      open |-> <<"(">>,
      like_q |-> <<" ", "L", "I", "K", "E", " ", "\"", "%">>,
      q_or |-> <<"%", "\"", " ", "O", "R", " ">>,
      OR |-> <<"O", "R", " ">>,
      AND |-> <<"A", "N", "D", " ">>,
      paren |-> <<")">>,
      c_eq |-> <<" ", "=", " ">>,
      c_like |-> <<" ", "L", "I", "K", "E", " ">>,
      c_gt |-> <<" ", ">", " ">>,
      c_lt |-> <<" ", "<", " ">>,
      c_gte |-> <<" ", ">", "=", " ">>,
      c_lte |-> <<" ", "<", "=", " ">>,
      c_ne |-> <<" ", "<", ">", " ">>,
      EQ |-> <<"E", "Q">>,
      LIKE |-> <<"L", "I", "K", "E">>,
      GT |-> <<"G", "T">>,
      LT |-> <<"L", "T">>,
      GTE |-> <<"G", "T", "E">>,
      LTE |-> <<"L", "T", "E">>,
      NE |-> <<"N", "E">>,
      dq_pct |-> <<"\"", "%">>,
      pct_dq_and |-> <<"%", "\"", " ", "A", "N", "D", " ">>,
      dq |-> <<"\"">>,
      dq_and |-> <<"\"", " ", "A", "N", "D", " ">>,
      order |-> <<"\n", "O", "R", "D", "E", "R", " ", "B", "Y", " ">>,
      sp |-> <<" ">>,
      limit |-> <<"\n", "L", "I", "M", "I", "T", " ">>,
      semi |-> <<";">>,
      ASC |-> <<"A", "S", "C">>,
      DESC |-> <<"D", "E", "S", "C">>,
      eq_dq |-> <<"=", "\"">>,
      dq_semi |-> <<"\"", ";">>,
      eq |-> <<"=">> ]

\* the table and column names of the schema
Nm ==
    [ id |-> <<"i", "d">>,
      nm |-> <<"n", "m">>,
      rid |-> <<"r", "i", "d">>,
      cid |-> <<"c", "i", "d">>,
      qty |-> <<"q", "t", "y">>,
      r |-> <<"r">>,
      c |-> <<"c">>,
      o |-> <<"o">>,
      p |-> <<"p">>,
      s |-> <<"s">>,
      a |-> <<"a">>,
      b |-> <<"b">>,
      pid |-> <<"p", "i", "d">>,
      aid |-> <<"a", "i", "d">>,
      bid |-> <<"b", "i", "d">>,
      x_comp |-> <<"x", "_", "c", "o", "m", "p">>,
      q |-> <<"q">>,
      w |-> <<"w">>,
      m |-> <<"m">>,
      oid |-> <<"o", "i", "d">>,
      oid_qty |-> <<"o", "i", "d", "_", "q", "t", "y">>,
      k1 |-> <<"k", "1">>,
      k2 |-> <<"k", "2">>,
      key2 |-> <<"k", "e", "y", "2">>,
      wk |-> <<"w", "k">>,
      hidden |-> <<"d", ".", "h", ".", "i", "d">> ]

S_MUL == <<"M", "U", "L">>

\* Python's None, where a str is expected
None == <<"<None>">>

\* pat in s
Contains(s, pat) ==
    \E i \in 1..(Len(s) - Len(pat) + 1) : SubSeq(s, i, i + Len(pat) - 1) = pat

\* s.replace(pat, new), pat not empty: every non-overlapping occurrence,
\* leftmost first
RECURSIVE Replace(_, _, _)
Replace(s, pat, new) ==
    IF Len(s) < Len(pat) THEN s
    ELSE IF SubSeq(s, 1, Len(pat)) = pat
         THEN new \o Replace(SubSeq(s, Len(pat) + 1, Len(s)), pat, new)
         ELSE <<s[1]>> \o Replace(Tail(s), pat, new)

\* s[:-n]
DropLast(s, n) == IF n >= Len(s) THEN <<>> ELSE SubSeq(s, 1, Len(s) - n)

\* s[-n:]
TakeLast(s, n) == IF n >= Len(s) THEN s ELSE SubSeq(s, Len(s) - n + 1, Len(s))

\* str(n) for an int n >= 0
RECURSIVE IntToStr(_)
IntToStr(n) ==
    IF n < 10 THEN <<ToString(n)>>
    ELSE IntToStr(n \div 10) \o <<ToString(n % 10)>>

IsDigit(c) == \E d \in 0..9 : ToString(d) = c

DigitVal(c) == CHOOSE d \in 0..9 : ToString(d) = c

\* int(s) succeeds (decimal digits only; signs and blanks are not modelled)
IsIntStr(s) == Len(s) > 0 /\ \A i \in 1..Len(s) : IsDigit(s[i])

\* int(s) for a digit string
RECURSIVE StrToInt(_)
StrToInt(s) ==
    IF Len(s) = 0 THEN 0
    ELSE 10 * StrToInt(DropLast(s, 1)) + DigitVal(s[Len(s)])

LowerLetters ==
    <<"a", "b", "c", "d", "e", "f", "g", "h", "i", "j", "k", "l", "m",
      "n", "o", "p", "q", "r", "s", "t", "u", "v", "w", "x", "y", "z">>

UpperLetters ==
    <<"A", "B", "C", "D", "E", "F", "G", "H", "I", "J", "K", "L", "M",
      "N", "O", "P", "Q", "R", "S", "T", "U", "V", "W", "X", "Y", "Z">>

UpperChar(c) ==
    IF \E i \in 1..26 : LowerLetters[i] = c
    THEN UpperLetters[CHOOSE i \in 1..26 : LowerLetters[i] = c]
    ELSE c

\* s.upper(), for ASCII text
Upper(s) == [i \in 1..Len(s) |-> UpperChar(s[i])]

\* ------------------------------------------------------------ dict

DictHas(d, k) == \E i \in 1..Len(d) : d[i].k = k

DictIdx(d, k) == CHOOSE i \in 1..Len(d) : d[i].k = k

\* d[k]
DictGet(d, k) == d[DictIdx(d, k)].v

\* d[k] = v
DictSet(d, k, v) ==
    IF DictHas(d, k) THEN [d EXCEPT ![DictIdx(d, k)].v = v]
    ELSE Append(d, [k |-> k, v |-> v])

Val(v) == [t |-> "val", v |-> v]

Dict(d) == [t |-> "dict", d |-> d]

\* ------------------------------------------------------------ schema model

DbName == <<"d">>

\* DatabaseField.__init__: relation is <<>> (None) or <<table, field>>, the
\* place of the related field in the schema; parent is the table's place.
\* nullable, default and protection are read by no operation modelled here.
DatabaseField(name, parent_name, parent, typ, key, relation) ==
    [t |-> "field",
     name |-> name,
     fq_name |-> DbName \o Ctx.dot \o parent_name \o Ctx.dot \o name,
     api_name |-> name,
     sql_name |-> None,
     parent |-> parent,
     typ |-> typ,
     key |-> key,
     relation |-> relation]

\* DatabaseTable.__init__
DatabaseTable(name, children) ==
    [name |-> name,
     fq_name |-> DbName \o Ctx.dot \o name,
     db_name |-> None,
     children |-> children]

\* The schema get_schema would build for a database d with
\*   r(id int PRI, nm varchar)
\*   c(id varchar PRI, nm varchar, rid int -> r.id)
\*   o(id int PRI, cid varchar -> c.id, qty int)
\*   p(id int PRI, cid varchar -> c.id, rid int -> r.id, x_comp varchar)
\*   s(id int PRI, pid int -> s.id)
\*   a(id int PRI, bid int -> b.id)
\*   b(id int PRI, aid int -> a.id)
\*   q(id int PRI, oid int -> o.id, oid_qty int)
\*   w(k1 int PRI, k2 int PRI)
\*   m(id int PRI, wk int -> w.k1)
\* and with the display name of w.k2 set to key2 (api_name.name assigned)
\* before any context is compiled
Schema ==
    << DatabaseTable(Nm.r, << DatabaseField(Nm.id, Nm.r, 1, Ctl.int, Ctl.PRI, <<>>),
                             DatabaseField(Nm.nm, Nm.r, 1, Ctl.varchar, <<>>, <<>>) >>),
       DatabaseTable(Nm.c, << DatabaseField(Nm.id, Nm.c, 2, Ctl.varchar, Ctl.PRI, <<>>),
                             DatabaseField(Nm.nm, Nm.c, 2, Ctl.varchar, <<>>, <<>>),
                             DatabaseField(Nm.rid, Nm.c, 2, Ctl.int, S_MUL, <<1, 1>>) >>),
       DatabaseTable(Nm.o, << DatabaseField(Nm.id, Nm.o, 3, Ctl.int, Ctl.PRI, <<>>),
                             DatabaseField(Nm.cid, Nm.o, 3, Ctl.varchar, S_MUL, <<2, 1>>),
                             DatabaseField(Nm.qty, Nm.o, 3, Ctl.int, <<>>, <<>>) >>),
       DatabaseTable(Nm.p, << DatabaseField(Nm.id, Nm.p, 4, Ctl.int, Ctl.PRI, <<>>),
                             DatabaseField(Nm.cid, Nm.p, 4, Ctl.varchar, S_MUL, <<2, 1>>),
                             DatabaseField(Nm.rid, Nm.p, 4, Ctl.int, S_MUL, <<1, 1>>),
                             DatabaseField(Nm.x_comp, Nm.p, 4, Ctl.varchar, <<>>, <<>>) >>),
       DatabaseTable(Nm.s, << DatabaseField(Nm.id, Nm.s, 5, Ctl.int, Ctl.PRI, <<>>),
                             DatabaseField(Nm.pid, Nm.s, 5, Ctl.int, S_MUL, <<5, 1>>) >>),
       DatabaseTable(Nm.a, << DatabaseField(Nm.id, Nm.a, 6, Ctl.int, Ctl.PRI, <<>>),
                             DatabaseField(Nm.bid, Nm.a, 6, Ctl.int, S_MUL, <<7, 1>>) >>),
       DatabaseTable(Nm.b, << DatabaseField(Nm.id, Nm.b, 7, Ctl.int, Ctl.PRI, <<>>),
                             DatabaseField(Nm.aid, Nm.b, 7, Ctl.int, S_MUL, <<6, 1>>) >>),
       DatabaseTable(Nm.q, << DatabaseField(Nm.id, Nm.q, 8, Ctl.int, Ctl.PRI, <<>>),
                             DatabaseField(Nm.oid, Nm.q, 8, Ctl.int, S_MUL, <<3, 1>>),
                             DatabaseField(Nm.oid_qty, Nm.q, 8, Ctl.int, <<>>, <<>>) >>),
       DatabaseTable(Nm.w, << DatabaseField(Nm.k1, Nm.w, 9, Ctl.int, Ctl.PRI, <<>>),
                             [DatabaseField(Nm.k2, Nm.w, 9, Ctl.int, Ctl.PRI, <<>>)
                                  EXCEPT !.api_name = Nm.key2] >>),
       DatabaseTable(Nm.m, << DatabaseField(Nm.id, Nm.m, 10, Ctl.int, Ctl.PRI, <<>>),
                             DatabaseField(Nm.wk, Nm.m, 10, Ctl.int, S_MUL, <<9, 1>>) >>) >>

\* the tables the controller is given a context of: those whose relations
\* lead back to no table already passed
RootTables == <<1, 2, 3, 4>>

\* f.relation, the related DatabaseField
Relation(f) == Schema[f.relation[1]].children[f.relation[2]]

\* f.relation.parent, the related DatabaseTable
RelationParent(f) == Schema[f.relation[1]]

\* DatabaseField.clone: a new field from the constructor arguments, so
\* api_name and sql_name start afresh
FieldClone(f) == [f EXCEPT !.api_name = f.name, !.sql_name = None]

\* DatabaseTable.clone: a new table holding the same children list, db_name
\* copied
TableClone(tb) == tb

\* ------------------------------------------------------------ APIContext

API_REL_CHAR == <<"_">>

\* the joiner text with 't' + str(len(self.tables)) in place of
\* len(self.tables) + 1: the alias of the table joined last, not of the one
\* the relation is about to add
Joiner_last(db_name, f, n_tables) ==
    db_name \o Ctx.dot \o f.name \o Ctx.eq_t \o IntToStr(n_tables)
        \o Ctx.dot \o Relation(f).name

\* the joiner text of gen_model (line 64) and branch_rel (line 92), n_tables
\* being len(self.tables) at that line
Joiner(db_name, f, n_tables) ==
    db_name \o Ctx.dot \o f.name \o Ctx.eq_t \o IntToStr(n_tables + 1)
        \o Ctx.dot \o Relation(f).name

\* tid computed before the clone is appended (line 80 ahead of line 77):
\* the alias of the table joined last is handed out again
branch_tid_before_append(tables) == <<"t">> \o IntToStr(Len(tables))

\* branch_rel's tid (line 80), tables being self.tables before the clone of
\* the related table is appended to it by line 77
branch_tid(tables) == <<"t">> \o IntToStr(Len(tables) + 1)

\* self.reqs[i].append(x), i 0-based
ReqsAppend(reqs, i, x) == [reqs EXCEPT ![i + 1] = Append(@, x)]

\* APIContext.branch_rel.  st is the part of self the recursion changes
\* ([tables, reqs, joins]) with the number of branch_rel calls that have not
\* returned (depth) and the exception under way (exc, "" for none); the
\* result is [st, node], node the filled parent dict.  branch_rel_loop is
\* the for loop from its i-th field on.  Bind(e, F) is F(e) with e
\* evaluated once, the way an assignment binds a local variable to a value.
\* Nothing in branch_rel ends the
\* recursion when a relation leads back to a table already passed: the call
\* the interpreter has no stack left for raises RecursionError.
RECURSIVE branch_rel(_, _), branch_rel_loop(_, _, _, _, _, _)
branch_rel(st, branch_field) ==
    IF st.depth >= MaxDepth
    THEN [st |-> [st EXCEPT !.exc = "RecursionError"], node |-> <<>>]
    ELSE
        LET api_name_p1 == branch_field.api_name \o API_REL_CHAR
            Bind(e, F(_)) == CHOOSE res \in {F(v) : v \in {e}} : TRUE
            tid == branch_tid(st.tables)
            parent_table == [TableClone(RelationParent(branch_field))
                                 EXCEPT !.db_name = tid]
        IN  Bind([st EXCEPT !.tables = Append(@, parent_table),
                            !.reqs = Append(@, <<>>),
                            !.depth = @ + 1],
                 LAMBDA st1 :
            Bind(branch_rel_loop(st1, <<>>, parent_table, 1, tid, api_name_p1),
                 LAMBDA r :
            [st |-> [r.st EXCEPT !.depth = @ - 1], node |-> r.node]))

branch_rel_loop(st, parent, parent_table, i, tid, api_name_p1) ==
    IF i > Len(parent_table.children) THEN [st |-> st, node |-> parent]
    ELSE
        LET f == parent_table.children[i]
            g == [FieldClone(f) EXCEPT !.sql_name = tid \o Ctx.dot \o f.name,
                                       !.api_name = api_name_p1 \o f.name]
            Bind(e, F(_)) == CHOOSE res \in {F(v) : v \in {e}} : TRUE
        IN  Bind(DictSet(parent, f.fq_name, g), LAMBDA parent1 :
            Bind([st EXCEPT !.reqs = ReqsAppend(@, Len(st.tables) - 1, g.api_name)],
                 LAMBDA st1 :
            IF f.relation # <<>>
            THEN Bind([st1 EXCEPT !.joins =
                          Append(@, Joiner(parent_table.db_name, f, Len(st1.tables)))],
                      LAMBDA st2 :
                 Bind(branch_rel(st2, g), LAMBDA sub :
                 Bind(DictSet(parent1, f.fq_name \o Ctx.branch, Dict(sub.node)),
                      LAMBDA parent2 :
                 IF sub.st.exc # "" THEN [st |-> sub.st, node |-> parent2]
                 ELSE branch_rel_loop(sub.st, parent2, parent_table, i + 1,
                                      tid, api_name_p1))))
            ELSE branch_rel_loop(st1, parent1, parent_table, i + 1, tid, api_name_p1)))

\* APIContext.gen_model from its i-th field on; the result is [st, node].
\* The loop runs over self.tables[0].children, and line 61 writes sql_name
\* into f itself, an entry of that list.
RECURSIVE gen_model_loop(_, _, _)
gen_model_loop(st, model, i) ==
    IF i > Len(st.tables[1].children) THEN [st |-> st, node |-> model]
    ELSE
        LET tid == st.tables[1].db_name
            f == st.tables[1].children[i]
            g == [FieldClone(f) EXCEPT !.sql_name = tid \o Ctx.dot \o f.name]
            Bind(e, F(_)) == CHOOSE res \in {F(v) : v \in {e}} : TRUE
        IN  Bind(DictSet(model, f.fq_name, g), LAMBDA model1 :
            Bind([st EXCEPT !.reqs = ReqsAppend(@, 0, f.name),
                            !.tables[1].children[i].sql_name = tid \o Ctx.dot \o f.name],
                 LAMBDA st1 :
            IF f.relation # <<>>
            THEN Bind([st1 EXCEPT !.joins =
                          Append(@, Joiner(st1.tables[1].db_name, f, Len(st1.tables)))],
                      LAMBDA st2 :
                 Bind(branch_rel(st2, f), LAMBDA sub :
                 Bind(DictSet(model1, f.fq_name \o Ctx.branch, Dict(sub.node)),
                      LAMBDA model2 :
                 IF sub.st.exc # "" THEN [st |-> sub.st, node |-> model2]
                 ELSE gen_model_loop(sub.st, model2, i + 1))))
            ELSE gen_model_loop(st1, model1, i + 1)))

gen_model(st) ==
    LET tid == <<"t", "1">>
        st1 == [st EXCEPT !.tables[1].db_name = tid, !.reqs = Append(@, <<>>)]
    IN  gen_model_loop(st1, <<>>, 1)

\* APIContext.__init__(schema, table): self as the constructor leaves it,
\* the exception it ends with ("" when it returns), and the children of
\* table after it: DatabaseTable.clone hands the constructor's children
\* argument on (the loop of clone rebinds a local and copies nothing), so
\* self.tables[0].children is the list, and holds the fields, of the
\* schema's table
APIContext_init(table) ==
    LET Bind(e, F(_)) == CHOOSE res \in {F(v) : v \in {e}} : TRUE
    IN
    Bind(gen_model([tables |-> <<TableClone(table)>>, reqs |-> <<>>, joins |-> <<>>,
                    depth |-> 0, exc |-> ""]),
         LAMBDA r :
    [exc |-> r.st.exc,
     children |-> r.st.tables[1].children,
     self |-> [name |-> Replace(table.fq_name, Ctx.dot, API_REL_CHAR),
               tables |-> r.st.tables,
               reqs |-> r.st.reqs,
               joins |-> r.st.joins,
               model |-> r.node]])

\* APIContext(schema, table), the object of a constructor call that returns
APIContext(table) == APIContext_init(table).self

\* APIContext.flat_fields and __flat_fields_rec (the same loop, over the root
\* dict and over a branch dict), from the i-th key of parent on
RECURSIVE flat_fields_rec(_, _, _)
flat_fields_rec(fields, parent, i) ==
    IF i > Len(parent) THEN fields
    ELSE
        LET key == parent[i].k
        IN  IF ~Contains(key, Ctx.branch) /\ ~DictHas(parent, key \o Ctx.branch)
            THEN flat_fields_rec(Append(fields, parent[i].v), parent, i + 1)
            ELSE IF Contains(key, Ctx.branch)
                 THEN flat_fields_rec(flat_fields_rec(fields, parent[i].v.d, 1),
                                      parent, i + 1)
                 ELSE flat_fields_rec(fields, parent, i + 1)

flat_fields(self) == flat_fields_rec(<<>>, self.model, 1)

\* APIContext.types_view and __types_rec, from the i-th key of branch on
RECURSIVE types_rec(_, _, _)
types_rec(hook, branch, i) ==
    IF i > Len(branch) THEN hook
    ELSE
        LET key == branch[i].k
            field == branch[i].v
            Bind(e, F(_)) == CHOOSE res \in {F(v) : v \in {e}} : TRUE
        IN  IF ~Contains(key, Ctx.branch) /\ ~DictHas(branch, key \o Ctx.branch)
            THEN Bind(DictSet(hook, field.api_name, Val(field.typ)),
                      LAMBDA hook1 : types_rec(hook1, branch, i + 1))
            ELSE IF ~Contains(key, Ctx.branch)
                 THEN Bind(types_rec(<<>>, DictGet(branch, key \o Ctx.branch).d, 1),
                           LAMBDA sub :
                      Bind(DictSet(hook, field.api_name, Dict(sub)),
                           LAMBDA hook1 : types_rec(hook1, branch, i + 1)))
                 ELSE types_rec(hook, branch, i + 1)

types_view(self) == types_rec(<<>>, self.model, 1)

\* the text of [x + sep for x in xs], joined
RECURSIVE JoinEach(_, _)
JoinEach(xs, sep) ==
    IF xs = <<>> THEN <<>> ELSE xs[1] \o sep \o JoinEach(Tail(xs), sep)

\* APIContext.get_sql_parts
get_sql_parts(self) ==
    LET flat == flat_fields(self)
        sql1 == DropLast(Ctx.select
                    \o JoinEach([i \in 1..Len(flat) |-> flat[i].sql_name], Ctx.comma_sp), 2)
        sql2 == DropLast(sql1 \o Ctx.from
                    \o JoinEach([i \in 1..Len(self.tables) |->
                                    self.tables[i].fq_name \o Ctx.as
                                        \o self.tables[i].db_name], Ctx.comma_sp), 2)
        sql3 == sql2 \o Ctx.where \o JoinEach(self.joins, Ctx.and)
    IN  IF Len(self.joins) > 0 THEN DropLast(sql3, 4) ELSE sql3

\* the index (0-based, -1 when none) unpack_single finds for a key: that of
\* the last field of fields with this display name
UnpackInd(fields, key) ==
    IF \E j \in 1..Len(fields) : fields[j].api_name = key
    THEN (CHOOSE j \in 1..Len(fields) :
              /\ fields[j].api_name = key
              /\ \A m \in (j + 1)..Len(fields) : fields[m].api_name # key) - 1
    ELSE -1

\* values[ind] of a Python list
ListAt(values, ind) == IF ind < 0 THEN values[Len(values) + 1 + ind] ELSE values[ind + 1]

\* APIContext.unpack_single and __unpack_single_rec (the same loop)
RECURSIVE unpack_single_rec(_, _, _)
unpack_single_rec(fields, values, parent) ==
    [i \in 1..Len(parent) |->
        IF parent[i].v.t # "dict"
        THEN [k |-> parent[i].k,
              v |-> Val(ListAt(values, UnpackInd(fields, parent[i].k)))]
        ELSE [k |-> parent[i].k,
              v |-> Dict(unpack_single_rec(fields, values, parent[i].v.d))]]

unpack_single(self, result) ==
    LET Bind(e, F(_)) == CHOOSE res \in {F(v) : v \in {e}} : TRUE
    IN  Bind(flat_fields(self), LAMBDA fields :
        Bind(types_view(self), LAMBDA types :
        unpack_single_rec(fields, result, types)))

\* DatabaseTable.canned_gen_id: the n-th id handed out while one request is
\* served.  uuid4 is random; the ids of one request are told apart by n.
gen_id(n) == <<"u">> \o IntToStr(n)

\* APIContext.pack_single's loop over the keys of the copied model, and the
\* first loop of __pack_single_rec (the same statements), from the i-th key
\* on; n counts the ids generated.  The result is [ok, exc, node, n].
RECURSIVE pack_loop(_, _, _, _), pack_single_rec(_, _, _, _, _)
pack_loop(node, d, n, i) ==
    IF i > Len(node) THEN [ok |-> TRUE, exc |-> "", node |-> node, n |-> n]
    ELSE
        LET key == node[i].k
            this_field == node[i].v
            Bind(e, F(_)) == CHOOSE res \in {F(v) : v \in {e}} : TRUE
        IN  IF Contains(key, Ctx.branch) THEN pack_loop(node, d, n, i + 1)
            ELSE IF ~DictHas(d, this_field.api_name)
            THEN IF DictHas(node, key \o Ctx.branch)
                 THEN Bind(gen_id(n), LAMBDA new_id :
                      Bind(DictSet(node, key, Val(new_id)), LAMBDA node1 :
                      Bind(pack_single_rec(DictGet(node, key \o Ctx.branch).d,
                                           this_field, new_id, d, n + 1), LAMBDA sub :
                      IF ~sub.ok THEN sub
                      ELSE Bind(DictSet(node1, key \o Ctx.branch, Dict(sub.node)),
                                LAMBDA node2 : pack_loop(node2, d, sub.n, i + 1)))))
                 ELSE IF Contains(this_field.key, Ctl.PRI)
                      THEN Bind(DictSet(node, key, Val(gen_id(n))),
                                LAMBDA node1 : pack_loop(node1, d, n + 1, i + 1))
                      ELSE [ok |-> FALSE, exc |-> "AttributeError", node |-> node, n |-> n]
            ELSE Bind(DictSet(node, key, DictGet(d, this_field.api_name)),
                      LAMBDA node1 : pack_loop(node1, d, n, i + 1))

\* APIContext.__pack_single_rec: the loop, then new_id written to the slot of
\* the related column
pack_single_rec(node, rel_field, new_id, d, n) ==
    LET Bind(e, F(_)) == CHOOSE res \in {F(v) : v \in {e}} : TRUE
    IN  Bind(pack_loop(node, d, n, 1), LAMBDA r :
        IF ~r.ok THEN r
        ELSE [r EXCEPT !.node =
                 [j \in 1..Len(r.node) |->
                     IF r.node[j].k = Relation(rel_field).fq_name
                     THEN [r.node[j] EXCEPT !.v = Val(new_id)]
                     ELSE r.node[j]]])

\* APIContext.pack_single(d), the first generated id being gen_id(1)
pack_single(self, d) == pack_loop(self.model, d, 1, 1)

\* pack_single with `model = self.model` in place of line 374's deep copy:
\* the ids and values the loop writes land in the context's own model tree
pack_single_self_shared(self, d) == [self EXCEPT !.model = pack_single(self, d).node]

\* self after pack_single(d).  Line 374 binds model to copy.deepcopy(self.model)
\* and every assignment of pack_single and __pack_single_rec is to an entry of
\* that copy, so no attribute of self is written.
pack_single_self(self, d) == self

\* str(x) of a DatabaseField, which defines no __str__

\* str(x) of a dict value
Str(x) == IF x.t = "val" THEN x.v ELSE Ctx.object

\* APIContext.__post_sql_parts_rec from the i-th key of pack_node on, s the
\* statement so far.  The result is [ok, exc, sql].  A value of a varchar
\* column is concatenated without str(), a TypeError unless it is a str; the
\* nested call of line 230 passes three arguments to a method of four
\* parameters, a TypeError.
RECURSIVE post_sql_parts_rec_loop(_, _, _, _, _)
post_sql_parts_rec_loop(pack_node, model_node, sql, s, i) ==
    IF i > Len(pack_node)
    THEN [ok |-> TRUE, exc |-> "", sql |-> Append(sql, DropLast(s, 1) \o Ctx.close)]
    ELSE
        LET key == pack_node[i].k
            x == pack_node[i].v
        IN  IF Contains(key, Ctx.branch)
            THEN post_sql_parts_rec_loop(pack_node, model_node, sql, s, i + 1)
            ELSE IF Contains(DictGet(model_node, key).typ, Ctl.varchar) /\ x.t # "val"
            THEN [ok |-> FALSE, exc |-> "TypeError", sql |-> sql]
            ELSE IF DictHas(pack_node, key \o Ctx.branch)
            THEN [ok |-> FALSE, exc |-> "TypeError", sql |-> sql]
            ELSE post_sql_parts_rec_loop(
                     pack_node, model_node, sql,
                     IF Contains(DictGet(model_node, key).typ, Ctl.varchar)
                     THEN s \o Ctx.quote \o x.v \o Ctx.quote_comma
                     ELSE s \o Str(x) \o Ctx.comma,
                     i + 1)

post_sql_parts_rec(pack_node, model_node, reld, sql) ==
    post_sql_parts_rec_loop(pack_node, model_node, sql,
                            Ctx.insert \o Schema[reld[1]].fq_name \o Ctx.values, 1)

\* APIContext.post_sql_parts from the i-th key of packed on
RECURSIVE post_sql_parts_loop(_, _, _, _, _)
post_sql_parts_loop(self, packed, sql, s, i) ==
    IF i > Len(packed)
    THEN [ok |-> TRUE, exc |-> "", sql |-> Append(sql, DropLast(s, 1) \o Ctx.close)]
    ELSE
        LET key == packed[i].k
            s1 == IF Contains(DictGet(self.model, key).typ, Ctl.varchar)
                  THEN s \o Ctx.quote \o Str(packed[i].v) \o Ctx.quote_comma
                  ELSE s \o Str(packed[i].v) \o Ctx.comma
        IN  IF Contains(key, Ctx.branch)
            THEN post_sql_parts_loop(self, packed, sql, s, i + 1)
            ELSE IF DictHas(packed, key \o Ctx.branch)
            THEN LET sub == post_sql_parts_rec(DictGet(packed, key \o Ctx.branch).d,
                                               DictGet(self.model, key \o Ctx.branch).d,
                                               DictGet(self.model, key).relation, sql)
                 IN  IF ~sub.ok THEN sub
                     ELSE post_sql_parts_loop(self, packed, sub.sql, s1, i + 1)
            ELSE post_sql_parts_loop(self, packed, sql, s1, i + 1)

post_sql_parts(self, packed) ==
    post_sql_parts_loop(self, packed, <<>>,
                        Ctx.insert \o self.tables[1].fq_name \o Ctx.values, 1)

\* APIContext.del_sql_parts and __del_sql_parts_rec (the same loop, lines
\* 243-252 and 260-269) from the i-th key of pack_node on, s the statement so
\* far: each primary-key column adds name=value to s with nothing between two
\* of them, and the statement of a branch is appended to sql before the
\* statement of the table that holds the branch
RECURSIVE del_sql_parts_loop(_, _, _, _, _), del_sql_parts_rec(_, _, _, _)
del_sql_parts_loop(pack_node, model_node, sql, s, i) ==
    IF i > Len(pack_node) THEN Append(sql, s \o Ctx.semi)
    ELSE
        LET key == pack_node[i].k
            f == DictGet(model_node, key)
            s1 == IF ~Contains(f.key, Ctl.PRI) THEN s
                  ELSE IF Contains(f.typ, Ctl.char)
                  THEN s \o f.name \o Ctx.eq_quote \o Str(pack_node[i].v) \o Ctx.quote
                  ELSE s \o f.name \o Ctx.eq \o Str(pack_node[i].v)
            Bind(e, F(_)) == CHOOSE res \in {F(v) : v \in {e}} : TRUE
        IN  IF Contains(key, Ctx.branch)
            THEN del_sql_parts_loop(pack_node, model_node, sql, s, i + 1)
            ELSE IF DictHas(pack_node, key \o Ctx.branch)
            THEN Bind(del_sql_parts_rec(DictGet(pack_node, key \o Ctx.branch).d,
                                        DictGet(model_node, key \o Ctx.branch).d,
                                        RelationParent(f), sql), LAMBDA sql1 :
                 Bind(s1, LAMBDA s2 :
                 del_sql_parts_loop(pack_node, model_node, sql1, s2, i + 1)))
            ELSE Bind(s1, LAMBDA s2 :
                 del_sql_parts_loop(pack_node, model_node, sql, s2, i + 1))

\* APIContext.__del_sql_parts_rec
del_sql_parts_rec(pack_node, model_node, rel_t, sql) ==
    del_sql_parts_loop(pack_node, model_node, sql,
                       Ctx.delete \o rel_t.fq_name \o Ctx.del_where, 1)

\* APIContext.del_sql_parts(packed)
del_sql_parts(self, packed) ==
    del_sql_parts_loop(packed, self.model, <<>>,
                       Ctx.delete \o self.tables[1].fq_name \o Ctx.del_where, 1)

\* APIContext.pack_api and __pack_api_rec (the same loop), from the i-th key
\* of val_node on
RECURSIVE pack_api_rec(_, _, _, _)
pack_api_rec(new_node, val_node, model_node, i) ==
    IF i > Len(val_node) THEN new_node
    ELSE
        LET key == val_node[i].k
            api_n == DictGet(model_node, key).api_name
        IN  IF Contains(key, Ctx.branch)
            THEN pack_api_rec(new_node, val_node, model_node, i + 1)
            ELSE IF DictHas(val_node, key \o Ctx.branch)
            THEN pack_api_rec(
                     DictSet(new_node, api_n,
                             Dict(pack_api_rec(<<>>, DictGet(val_node, key \o Ctx.branch).d,
                                               DictGet(model_node, key \o Ctx.branch).d, 1))),
                     val_node, model_node, i + 1)
            ELSE pack_api_rec(DictSet(new_node, api_n, val_node[i].v),
                              val_node, model_node, i + 1)

pack_api(self, packed) == pack_api_rec(<<>>, packed, self.model, 1)

\* APIContext.__to_model_pack_rec from the i-th key of model_node on: hook is
\* the dict being filled, retval the value found so far.  The first statement
\* of the loop body reads model_node[key].name of every key, the '_branch'
\* keys included, whose value is a dict.
RECURSIVE to_model_pack_rec(_, _, _, _, _, _)
to_model_pack_rec(hook, val_node, model_node, rel_f, retval, i) ==
    IF i > Len(model_node) THEN [ok |-> TRUE, exc |-> "", hook |-> hook, retval |-> retval]
    ELSE
        LET key == model_node[i].k
            f == model_node[i].v
        IN  IF f.t # "field"
            THEN [ok |-> FALSE, exc |-> "AttributeError", hook |-> hook, retval |-> retval]
            ELSE
                LET retval1 == IF f.name = rel_f THEN DictGet(val_node, f.api_name)
                               ELSE retval
                IN  IF Contains(key, Ctx.branch)
                    THEN to_model_pack_rec(hook, val_node, model_node, rel_f, retval1, i + 1)
                    ELSE IF DictHas(model_node, key \o Ctx.branch)
                    THEN LET sub == to_model_pack_rec(
                                        <<>>, DictGet(val_node, f.api_name).d,
                                        DictGet(model_node, key \o Ctx.branch).d,
                                        Relation(f).api_name, Val(None), 1)
                             hook1 == DictSet(DictSet(hook, key, Val(Relation(f).api_name)),
                                              key \o Ctx.branch, Dict(sub.hook))
                         IN  IF ~sub.ok THEN [sub EXCEPT !.hook = hook1, !.retval = retval1]
                             ELSE to_model_pack_rec(DictSet(hook1, key, sub.retval),
                                                    val_node, model_node, rel_f,
                                                    retval1, i + 1)
                    ELSE to_model_pack_rec(
                             DictSet(hook, key, DictGet(val_node, f.api_name)),
                             val_node, model_node, rel_f, retval1, i + 1)

\* APIContext.to_model_pack(pack) from the i-th key of self.model on
RECURSIVE to_model_pack_loop(_, _, _, _)
to_model_pack_loop(self, pack, model_pack, i) ==
    IF i > Len(self.model) THEN [ok |-> TRUE, exc |-> "", node |-> model_pack]
    ELSE
        LET key == self.model[i].k
            f == self.model[i].v
        IN  IF Contains(key, Ctx.branch) THEN to_model_pack_loop(self, pack, model_pack, i + 1)
            ELSE IF DictHas(self.model, key \o Ctx.branch)
            THEN LET sub == to_model_pack_rec(
                                <<>>, DictGet(pack, f.api_name).d,
                                DictGet(self.model, key \o Ctx.branch).d,
                                Relation(f).api_name, Val(None), 1)
                     model_pack1 == DictSet(DictSet(model_pack, key,
                                                    Val(Relation(f).api_name)),
                                            key \o Ctx.branch, Dict(sub.hook))
                 IN  IF ~sub.ok THEN [ok |-> FALSE, exc |-> sub.exc, node |-> model_pack1]
                     ELSE to_model_pack_loop(self, pack,
                                             DictSet(model_pack1, key, sub.retval), i + 1)
            ELSE to_model_pack_loop(
                     self, pack, DictSet(model_pack, key, DictGet(pack, f.api_name)), i + 1)

\* APIContext.to_model_pack(pack): [ok, exc, node], node the qualified-name
\* dict when it returns
to_model_pack(self, pack) == to_model_pack_loop(self, pack, <<>>, 1)

\* ------------------------------------------------------------ APIController

NONSP_PARAMS == <<Ctl.order_by, Ctl.order_dir, Ctl.page, Ctl.q>>

\* x in xs
InList(x, xs) == \E i \in 1..Len(xs) : xs[i] = x

\* xs.index(x), 1-based
ListIndex(xs, x) ==
    CHOOSE i \in 1..Len(xs) : xs[i] = x /\ \A j \in 1..(i - 1) : xs[j] # x

\* a handler's results: return payload, status  or  raise exc
Msg(text, arg) == [t |-> "msg", text |-> text, arg |-> arg]

List(rows) == [t |-> "list", rows |-> rows]

Return(payload, status) ==
    [kind |-> "return", payload |-> payload, status |-> status, exc |-> ""]

Raise(exc) == [kind |-> "raise", payload |-> Msg("", <<>>), status |-> 0, exc |-> exc]

\* what a handler has reached before its first backend call: a result, or
\* the statement to submit
Done(res) == [done |-> TRUE, res |-> res, sql |-> <<>>]

Query(sql) == [done |-> FALSE, res |-> Raise(""), sql |-> sql]

\* FindContext with `context = self.contexts[0]` before the loop in place of
\* `context = None`: an unknown name resolves to the first context
FindContext_first(cs, context_name) ==
    IF \E i \in 1..Len(cs) : cs[i].name = context_name
    THEN CHOOSE i \in 1..Len(cs) :
             /\ cs[i].name = context_name
             /\ \A j \in (i + 1)..Len(cs) : cs[j].name # context_name
    ELSE 1

\* the loop `for c in self.contexts: if c.name == context_name: context = c`:
\* the place of the last context of that name, 0 for None
FindContext(cs, context_name) ==
    IF \E i \in 1..Len(cs) : cs[i].name = context_name
    THEN CHOOSE i \in 1..Len(cs) :
             /\ cs[i].name = context_name
             /\ \A j \in (i + 1)..Len(cs) : cs[j].name # context_name
    ELSE 0

\* the parameter type of a column type (context_query_multiple, lines 79-88)
ParamType(typ) ==
    IF Contains(typ, Ctl.char) \/ Contains(typ, Ctl.text) THEN "str"
    ELSE IF Contains(typ, Ctl.tinyint) THEN "bool"
    ELSE IF Contains(typ, Ctl.int) THEN "int"
    ELSE IF Contains(typ, Ctl.float) \/ Contains(typ, Ctl.real) THEN "float"
    ELSE "any"

\* APIController.__comp_to_symbol
comp_to_symbol(comp_val) ==
    IF comp_val = Ctl.EQ THEN Ctl.c_eq
    ELSE IF comp_val = Ctl.LIKE THEN Ctl.c_like
    ELSE IF comp_val = Ctl.GT THEN Ctl.c_gt
    ELSE IF comp_val = Ctl.LT THEN Ctl.c_lt
    ELSE IF comp_val = Ctl.GTE THEN Ctl.c_gte
    ELSE IF comp_val = Ctl.LTE THEN Ctl.c_lte
    ELSE IF comp_val = Ctl.NE THEN Ctl.c_ne
    ELSE None

\* the last field of fields whose display name is name, 0 for None
FieldNamed(fields, name) ==
    IF \E i \in 1..Len(fields) : fields[i].api_name = name
    THEN CHOOSE i \in 1..Len(fields) :
             /\ fields[i].api_name = name
             /\ \A j \in (i + 1)..Len(fields) : fields[j].api_name # name
    ELSE 0

\* context_query_multiple, lines 94-111: the free-text search
QSearch(args, fields, sql_query) ==
    IF \E i \in 1..Len(args) : ~InList(args[i].k, NONSP_PARAMS)
    THEN Done(Return(Msg("Bad parameters for 'q'",
                         args[CHOOSE i \in 1..Len(args) :
                                  /\ ~InList(args[i].k, NONSP_PARAMS)
                                  /\ \A j \in 1..(i - 1) :
                                         InList(args[j].k, NONSP_PARAMS)].k), 400))
    ELSE
        LET q == DictGet(args, Ctl.q)
            sql1 == sql_query \o Ctl.open
                      \o JoinEach([i \in 1..Len(fields) |-> fields[i].sql_name],
                                  Ctl.like_q \o q \o Ctl.q_or)
            sql2 == IF TakeLast(sql1, 3) = Ctl.OR THEN DropLast(sql1, 4) ELSE sql1
        IN  Query(sql2 \o Ctl.paren)

\* context_query_multiple, line 115: the key is refused
BadParameter(key, valid_params) ==
    /\ ~InList(key, valid_params)
    /\ ~InList(Replace(key, Ctl.comp, <<>>), valid_params)
    /\ ~InList(key, NONSP_PARAMS)

\* context_query_multiple, lines 118-143: the loop that appends a predicate
\* per filter key, from the i-th key of args on
RECURSIVE FilterLoop(_, _, _, _, _, _)
FilterLoop(args, fields, valid_params, param_types, sql_query, i) ==
    IF i > Len(args) THEN Query(sql_query)
    ELSE
        LET key == args[i].k
            comp_str == IF DictHas(args, key \o Ctl.comp)
                        THEN comp_to_symbol(DictGet(args, key \o Ctl.comp))
                        ELSE Ctl.c_eq
            this_field == FieldNamed(fields, key)
            ind == ListIndex(valid_params, key)
            val == args[i].v
            pred == IF param_types[ind] = "str"
                    THEN IF comp_str = Ctl.c_like
                         THEN fields[this_field].sql_name \o comp_str
                                  \o Ctl.dq_pct \o val \o Ctl.pct_dq_and
                         ELSE fields[this_field].sql_name \o comp_str
                                  \o Ctl.dq \o val \o Ctl.dq_and
                    ELSE fields[this_field].sql_name \o comp_str \o val \o Ctx.and
        IN  IF ~Contains(key, Ctl.comp) /\ InList(key, valid_params)
            THEN IF comp_str = None
                 THEN Done(Return(Msg("Bad comparator value", key \o Ctl.comp), 400))
                 ELSE IF this_field = 0
                 THEN Done(Return(Msg("Cannot find parameter field", key), 500))
                 ELSE FilterLoop(args, fields, valid_params, param_types,
                                 sql_query \o pred, i + 1)
            ELSE FilterLoop(args, fields, valid_params, param_types, sql_query, i + 1)

\* context_query_multiple, lines 113-146: the structured filter
Filter(args, fields, valid_params, param_types, sql_query) ==
    IF \E i \in 1..Len(args) : BadParameter(args[i].k, valid_params)
    THEN Done(Return(Msg("Bad parameter",
                         args[CHOOSE i \in 1..Len(args) :
                                  /\ BadParameter(args[i].k, valid_params)
                                  /\ \A j \in 1..(i - 1) :
                                         ~BadParameter(args[j].k, valid_params)].k), 400))
    ELSE
        LET r == FilterLoop(args, fields, valid_params, param_types, sql_query, 1)
        IN  IF r.done THEN r
            ELSE IF TakeLast(r.sql, 4) = Ctl.AND THEN Query(DropLast(r.sql, 5))
            ELSE r

\* Order without the else branch of line 162: a lone order_by or order_dir
\* is ignored
Order_lenient(args, fields, sql_query) ==
    IF DictHas(args, Ctl.order_by) /\ DictHas(args, Ctl.order_dir)
    THEN LET this_f == FieldNamed(fields, DictGet(args, Ctl.order_by))
             dir == Upper(DictGet(args, Ctl.order_dir))
         IN  IF this_f = 0
             THEN Done(Return(Msg("Bad parameter: 'order_by' not a valid field",
                                  <<>>), 400))
             ELSE IF ~InList(dir, <<Ctl.ASC, Ctl.DESC>>)
             THEN Done(Return(Msg("Bad parameter: 'order_dir' not a valid value",
                                  <<>>), 400))
             ELSE Query(sql_query \o Ctl.order \o fields[this_f].sql_name
                            \o Ctl.sp \o dir)
    ELSE Query(sql_query)

\* context_query_multiple, lines 149-163: the ordering
Order(args, fields, sql_query) ==
    IF DictHas(args, Ctl.order_by) \/ DictHas(args, Ctl.order_dir)
    THEN IF DictHas(args, Ctl.order_by) /\ DictHas(args, Ctl.order_dir)
         THEN LET this_f == FieldNamed(fields, DictGet(args, Ctl.order_by))
                  dir == Upper(DictGet(args, Ctl.order_dir))
              IN  IF this_f = 0
                  THEN Done(Return(Msg("Bad parameter: 'order_by' not a valid field",
                                       <<>>), 400))
                  ELSE IF ~InList(dir, <<Ctl.ASC, Ctl.DESC>>)
                  THEN Done(Return(Msg("Bad parameter: 'order_dir' not a valid value",
                                       <<>>), 400))
                  ELSE Query(sql_query \o Ctl.order \o fields[this_f].sql_name
                                 \o Ctl.sp \o dir)
         ELSE Done(Return(Msg("Bad parameters: 'order_by' and 'order_dir' must both be present",
                              <<>>), 400))
    ELSE Query(sql_query)

\* context_query_multiple, lines 165-169: the LIMIT
Limit(args, page_lim, sql_query) ==
    IF DictHas(args, Ctl.page) /\ page_lim # 0
    THEN IF ~IsIntStr(DictGet(args, Ctl.page)) THEN Done(Raise("ValueError"))
         ELSE Query(sql_query \o Ctl.limit
                        \o IntToStr(StrToInt(DictGet(args, Ctl.page)) * page_lim)
                        \o Ctl.semi)
    ELSE Query(sql_query \o Ctl.semi)

\* context_query_multiple, lines 58-169: up to the backend call
context_query_multiple_sql(cs, page_lim, context_name, args) ==
    LET Bind(e, F(_)) == CHOOSE res \in {F(v) : v \in {e}} : TRUE
    IN  Bind(FindContext(cs, context_name), LAMBDA c :
        IF c = 0
        THEN Done(Return(Msg("Bad model/context requested", context_name), 404))
        ELSE Bind(cs[c], LAMBDA context :
        IF Len(context.tables) < 1
        THEN Done(Return(Msg("Bad model/context processing", context_name), 500))
        ELSE IF DictHas(args, Ctl.page) /\ page_lim = 0
        THEN Done(Return(Msg("Bad 'page' parameter, api not using paging", <<>>), 400))
        ELSE IF ~DictHas(args, Ctl.page) /\ page_lim # 0
        THEN Done(Return(Msg("Missing 'page' parameter, api requires paging", <<>>), 400))
        ELSE
        Bind(flat_fields(context), LAMBDA fields :
        Bind(get_sql_parts(context), LAMBDA parts :
        Bind(IF Len(context.joins) # 0 THEN parts \o Ctl.join_and ELSE parts,
             LAMBDA sql0 :
        Bind(IF DictHas(args, Ctl.q) THEN QSearch(args, fields, sql0)
             ELSE Filter(args, fields,
                         [i \in 1..Len(fields) |-> fields[i].api_name],
                         [i \in 1..Len(fields) |-> ParamType(fields[i].typ)], sql0),
             LAMBDA r1 :
        Bind(IF r1.done THEN r1 ELSE Order(args, fields, r1.sql), LAMBDA r2 :
        IF r2.done THEN r2 ELSE Limit(args, page_lim, r2.sql))))))))

\* context_query_multiple, lines 173-187: result is what dbc.query returned
context_query_multiple_result(context, page_lim, args, result) ==
    IF Len(result) = 0 THEN Return(Msg("", <<>>), 404)
    ELSE
        LET results == [i \in 1..Len(result) |-> unpack_single(context, result[i])]
        IN  IF DictHas(args, Ctl.page) /\ page_lim # 0
            THEN LET min == page_lim * (StrToInt(DictGet(args, Ctl.page)) - 1)
                     max == StrToInt(DictGet(args, Ctl.page)) * page_lim - 1
                 IN  IF min >= Len(results) \/ max >= Len(results)
                     THEN Return(List(<<>>), 404)
                     ELSE Return(List(TakeLast(results, page_lim)), 200)
            ELSE Return(List(results), 200)

\* the root field context_query_single keys on (lines 262-267): the last
\* non-dict entry of the model whose key kind is 'PRI', 0 for None
KeyField(model) ==
    IF \E i \in 1..Len(model) : model[i].v.t # "dict" /\ model[i].v.key = Ctl.PRI
    THEN CHOOSE i \in 1..Len(model) :
             /\ model[i].v.t # "dict" /\ model[i].v.key = Ctl.PRI
             /\ \A j \in (i + 1)..Len(model) :
                    ~(model[j].v.t # "dict" /\ model[j].v.key = Ctl.PRI)
    ELSE 0

\* context_query_single, lines 251-278: up to the backend call
context_query_single_sql(cs, context_name, id) ==
    LET c == FindContext(cs, context_name)
        context == cs[c]
        k == KeyField(context.model)
        key_field == context.model[k].v
        sql0 == IF Len(context.joins) # 0
                THEN get_sql_parts(context) \o Ctl.join_and
                ELSE get_sql_parts(context)
    IN  IF c = 0
        THEN Done(Return(Msg("Bad model/context requested", context_name), 404))
        ELSE IF Len(context.tables) < 1
        THEN Done(Return(Msg("Bad model/context processing", context_name), 500))
        ELSE IF k = 0
        THEN Done(Return(Msg("No primary key field found", context_name), 500))
        ELSE IF Contains(key_field.typ, Ctl.varchar)
        THEN Query(sql0 \o key_field.sql_name \o Ctl.eq_dq \o id \o Ctl.dq_semi)
        ELSE Query(sql0 \o key_field.sql_name \o Ctl.eq \o id \o Ctl.semi)

\* context_query_single's result without the `len(results) == 1` test: the
\* first row is unpacked whenever there is one
context_query_single_result_first(context, result) ==
    IF Len(result) = 0 THEN Return(Msg("", <<>>), 404)
    ELSE Return(unpack_single(context, result[1]), 200)

\* context_query_single, lines 282-288: result is what dbc.query returned
context_query_single_result(context, result) ==
    IF Len(result) = 0 THEN Return(Msg("", <<>>), 404)
    ELSE IF Len(result) = 1 THEN Return(unpack_single(context, result[1]), 200)
    ELSE Return(Msg("Found more than expected contexts", <<>>), 500)

\* context_post_single without the loop of lines 221-223: no field is
\* found missing
MissingField_unchecked(fields, args) == 0

\* the first flattened field context_post_single finds missing in the body
\* (lines 221-223), 0 when none is
MissingField(fields, args) ==
    IF \E i \in 1..Len(fields) : ~DictHas(args, fields[i].api_name) /\ fields[i].key # Ctl.PRI
    THEN CHOOSE i \in 1..Len(fields) :
             /\ ~DictHas(args, fields[i].api_name) /\ fields[i].key # Ctl.PRI
             /\ \A j \in 1..(i - 1) :
                    ~(~DictHas(args, fields[j].api_name) /\ fields[j].key # Ctl.PRI)
    ELSE 0

\* what context_post_single has reached before its first backend call
PostDone(res) == [done |-> TRUE, res |-> res, sqls |-> <<>>, api_pack |-> <<>>]

\* context_post_single, lines 208-227: up to the loop over sqls
context_post_single_sqls(cs, context_name, args) ==
    LET c == FindContext(cs, context_name)
        context == cs[c]
        fields == flat_fields(context)
        m == MissingField(fields, args)
        packed == pack_single(context, args)
        sqls == post_sql_parts(context, packed.node)
    IN  IF c = 0
        THEN PostDone(Return(Msg("Bad model/context requested", context_name), 404))
        ELSE IF Len(context.tables) < 1
        THEN PostDone(Return(Msg("Bad model/context processing", context_name), 500))
        ELSE IF m # 0
        THEN PostDone(Return(Msg("Missing required arg in body", fields[m].api_name), 400))
        ELSE IF ~packed.ok THEN PostDone(Raise(packed.exc))
        ELSE IF ~sqls.ok THEN PostDone(Raise(sqls.exc))
        ELSE [done |-> FALSE, res |-> Raise(""), sqls |-> sqls.sql,
              api_pack |-> pack_api(context, packed.node)]

\* self.contexts after context_post_single: pack_single is called once the
\* context is found and no required field is missing (line 222); flat_fields,
\* post_sql_parts and pack_api assign to locals only
context_post_single_self(cs, context_name, args) ==
    LET c == FindContext(cs, context_name)
    IN  IF c = 0 THEN cs
        ELSE IF Len(cs[c].tables) < 1 THEN cs
        ELSE IF MissingField(flat_fields(cs[c]), args) # 0 THEN cs
        ELSE [cs EXCEPT ![c] = pack_single_self(cs[c], args)]

\* ------------------------------------------------------------ AliasName

\* AliasName(name, aliases)
AliasName(name, aliases) == [name |-> name, aliases |-> aliases]

\* AliasName.is_this(name)
is_this(self, name) ==
    \/ name = self.name
    \/ \E i \in 1..Len(self.aliases) : self.aliases[i] = name

\* AliasName.remove_alias(alias): the exception it ends with and self after
\* it.  Line 177 passes `name` to force_type; the parameter is `alias`, and
\* neither the method nor the module binds `name`, so evaluating the argument
\* raises NameError before the membership test of line 180 and the pop of
\* line 183 are reached.
remove_alias(self, alias) == [exc |-> "NameError", self |-> self]

\* ------------------------------------------------------------ MySQL

\* The server refuses a statement whose WHERE keyword is followed by no
\* condition (a syntax error, raised by cursor.execute).
Malformed(query) ==
    \/ Contains(query, Ctx.where \o Ctl.semi)
    \/ Contains(query, Ctx.where \o <<"\n">>)

\* the number between the statement's last LIMIT keyword and its closing
\* semicolon, -1 when there is none
LimitOf(query) ==
    LET last == Len(query) - Len(Ctl.limit) + 1
        at == {i \in 1..last :
                  /\ SubSeq(query, i, i + Len(Ctl.limit) - 1) = Ctl.limit
                  /\ \A j \in (i + 1)..last :
                         SubSeq(query, j, j + Len(Ctl.limit) - 1) # Ctl.limit}
        digits == SubSeq(query, (CHOOSE i \in at : TRUE) + Len(Ctl.limit), Len(query) - 1)
    IN  IF at # {} /\ query[Len(query)] = ";" /\ IsIntStr(digits)
        THEN StrToInt(digits)
        ELSE -1

\* cursor.execute(query); cursor.fetchall(): of the rows the statement's
\* conditions match, in order, the first LIMIT ones
FetchAll(query, rows) ==
    IF LimitOf(query) = -1 \/ LimitOf(query) >= Len(rows) THEN rows
    ELSE SubSeq(rows, 1, LimitOf(query))

\* what happens to a statement at the server.  outcome is "connect"
\* (connect() returns False), "execute" (cursor.execute or fetchall raises
\* Error) or "ok"; a malformed statement is refused by execute.
ServerExecutes(query, outcome) == outcome = "ok" /\ ~Malformed(query)

\* MySQL.query with `except Error as e: print(e)` and no raise, and close()
\* guarded by `if self.conn`: a failure returns an empty result
MySQL_query_quiet(query, outcome, rows) ==
    IF ServerExecutes(query, outcome)
    THEN [ok |-> TRUE, exc |-> "", rows |-> FetchAll(query, rows)]
    ELSE [ok |-> TRUE, exc |-> "", rows |-> <<>>]

\* MySQL.query (reached through DatabaseConnection.query).  After connect()
\* failed self.conn is None, and the finally clause's self.close() raises
\* AttributeError in place of the `return None`; an Error of execute or
\* fetchall is raised again as RuntimeError.
\* The result is [ok, exc, rows].
MySQL_query(query, outcome, rows) ==
    IF outcome = "connect" THEN [ok |-> FALSE, exc |-> "AttributeError", rows |-> <<>>]
    ELSE IF ~ServerExecutes(query, outcome)
    THEN [ok |-> FALSE, exc |-> "RuntimeError", rows |-> <<>>]
    ELSE [ok |-> TRUE, exc |-> "", rows |-> FetchAll(query, rows)]

\* what infield and outfield are before get_schema's loop first assigns them:
\* get_schema binds neither name before line 190 or 192
Unbound == <<"unbound">>

\* the schema get_schema has built when it reaches line 173: every table and
\* field that is not excluded, no relation set yet
BuiltSchema ==
    [i \in 1..Len(Schema) |->
        [Schema[i] EXCEPT !.children =
            [j \in 1..Len(Schema[i].children) |->
                [Schema[i].children[j] EXCEPT !.relation = <<>>]]]]

\* lines 186-192 for one name of a listing row: the last field of dbs whose
\* qualified name is fq, as <<table, field>>; the name keeps what it was
\* bound to (prev) when no field has that name
FieldOfName(dbs, fq, prev) ==
    LET hits == {x \in UNION {{<<i, j>> : j \in 1..Len(dbs[i].children)} :
                                  i \in 1..Len(dbs)} :
                    dbs[x[1]].children[x[2]].fq_name = fq}
    IN  IF hits = {} THEN prev
        ELSE CHOOSE x \in hits :
                 \A y \in hits : y[1] < x[1] \/ (y[1] = x[1] /\ y[2] <= x[2])

\* MySQL.get_schema, lines 182-197: the loop over the rows of the foreign-key
\* listing from the i-th row on, infield and outfield as the rows before left
\* them.  Reading a name that was never bound (line 194) is an
\* UnboundLocalError.  The result is [exc, dbs].
RECURSIVE get_schema_refs(_, _, _, _, _)
get_schema_refs(dbs, ref_rows, i, infield, outfield) ==
    IF i > Len(ref_rows) THEN [exc |-> "", dbs |-> dbs]
    ELSE
        LET Bind(e, F(_)) == CHOOSE res \in {F(v) : v \in {e}} : TRUE
        IN  Bind(FieldOfName(dbs, ref_rows[i].infq, infield), LAMBDA inf :
            Bind(FieldOfName(dbs, ref_rows[i].outfq, outfield), LAMBDA outf :
            IF inf = Unbound \/ outf = Unbound
            THEN [exc |-> "UnboundLocalError", dbs |-> dbs]
            ELSE Bind([dbs EXCEPT ![inf[1]].children[inf[2]].relation = outf],
                      LAMBDA dbs1 : get_schema_refs(dbs1, ref_rows, i + 1, inf, outf))))

\* ------------------------------------------------------------ RESTResource

\* RESTResource.on_delete.  self.apic.context_del_single is looked up on an
\* APIController, which defines context_query_multiple, context_post_single,
\* context_query_single and __comp_to_symbol only: the lookup raises
\* AttributeError before anything is called.
on_delete(query_string) ==
    IF query_string # <<>> THEN Return(Msg("Bad parameters", <<>>), 400)
    ELSE Raise("AttributeError")

\* ------------------------------------------------------------ requests

N_zz == <<"z", "z">>
N_dx == <<"d", "_", "x">>

\* the names requests ask for: the three contexts and an unknown one
ContextNames == {APIContext(Schema[RootTables[i]]).name : i \in 1..Len(RootTables)}
                    \cup {N_dx}

\* the parameters a query-string is made of
ArgPairs ==
    << [k |-> Ctl.q, v |-> <<"x">>],
       [k |-> Ctl.order_by, v |-> Nm.id],
       [k |-> Ctl.order_by, v |-> N_zz],
       [k |-> Ctl.order_dir, v |-> <<"a", "s", "c">>],
       [k |-> Ctl.order_dir, v |-> <<"D", "e", "s", "c">>],
       [k |-> Ctl.order_dir, v |-> <<"s", "i", "d", "e", "w", "a", "y", "s">>],
       [k |-> Nm.id, v |-> <<"1">>],
       [k |-> Nm.nm, v |-> <<"A">>],
       [k |-> Nm.nm \o Ctl.comp, v |-> Ctl.LIKE],
       [k |-> Nm.nm \o Ctl.comp, v |-> <<"X", "X">>],
       [k |-> N_zz, v |-> <<"1">>],
       [k |-> Nm.nm \o Ctl.comp \o Ctl.comp, v |-> Ctl.EQ],
       [k |-> Nm.x_comp, v |-> <<"A">>] >>

\* the entries of xs at the places in I, in order
RECURSIVE Select(_, _, _)
Select(xs, I, i) ==
    IF i > Len(xs) THEN <<>>
    ELSE IF i \in I THEN <<xs[i]>> \o Select(xs, I, i + 1)
    ELSE Select(xs, I, i + 1)

DistinctKeys(d) == \A i, j \in 1..Len(d) : d[i].k = d[j].k => i = j

\* the query-strings without page: at most MaxArgs parameters, no key twice
ArgSets ==
    {d \in {Select(ArgPairs, I, 1) :
                I \in {J \in SUBSET (1..Len(ArgPairs)) : Cardinality(J) <= MaxArgs}} :
        DistinctKeys(d)}

\* the page parameter: absent, a page number, or not a number
PageArgs ==
    {<<>>, <<[k |-> Ctl.page, v |-> <<"x">>]>>}
        \cup {<<[k |-> Ctl.page, v |-> IntToStr(p)]>> : p \in 1..MaxPage}

\* the entries a request body is made of
BodyPairs ==
    << [k |-> Nm.id, v |-> Val(<<"5">>)],
       [k |-> Nm.nm, v |-> Val(<<"A">>)],
       [k |-> Nm.qty, v |-> Val(<<"2">>)],
       [k |-> Nm.rid, v |-> Val(<<"7">>)],
       [k |-> Nm.cid, v |-> Val(<<"K">>)],
       [k |-> Nm.rid \o API_REL_CHAR \o Nm.nm, v |-> Val(<<"B">>)],
       [k |-> Nm.cid \o API_REL_CHAR \o Nm.nm, v |-> Val(<<"C">>)],
       [k |-> Nm.cid \o API_REL_CHAR \o Nm.rid \o API_REL_CHAR \o Nm.nm, v |-> Val(<<"D">>)] >>

Bodies == {Select(BodyPairs, I, 1) : I \in SUBSET (1..Len(BodyPairs))}

\* a body that gives the j-th flattened field of a context, from the i-th on,
\* the value b<j>; a display name two flattened fields share is one key
RECURSIVE FullBody(_, _, _)
FullBody(fields, d, i) ==
    IF i > Len(fields) THEN d
    ELSE LET Bind(e, F(_)) == CHOOSE res \in {F(v) : v \in {e}} : TRUE
         IN  Bind(DictSet(d, fields[i].api_name, Val(<<"b">> \o IntToStr(i))),
                  LAMBDA d1 : FullBody(fields, d1, i + 1))

\* the display names of a context's foreign-key fields: the names its
\* required-field lists hold and flat_fields does not
FkNames(self) ==
    LET names == UNION {{self.reqs[i][j] : j \in 1..Len(self.reqs[i])} :
                            i \in 1..Len(self.reqs)}
        fields == flat_fields(self)
    IN  {n \in names : \A j \in 1..Len(fields) : fields[j].api_name # n}

\* the bodies a context's methods are called with: every flattened field
\* given; one of them left out; a foreign-key field given too
DirectBodies(self) ==
    LET fields == flat_fields(self)
        full == FullBody(fields, <<>>, 1)
    IN  {full}
          \cup {Select(full, (1..Len(full)) \ {j}, 1) : j \in 1..Len(full)}
          \cup {Append(full, [k |-> fk, v |-> Val(<<"9">>)]) :
                    fk \in FkNames(self)}

\* the qualified names the rows of the backend's foreign-key listing are
\* made of: columns of the built schema, and a column the schema leaves out
\* (excluded by policy)
RefNames ==
    {Schema[2].children[3].fq_name, Schema[1].children[1].fq_name,
     Schema[2].children[1].fq_name, Nm.hidden}

\* the listings the backend answers the references query with
RefListings ==
    UNION {[1..n -> [infq : RefNames, outfq : RefNames]] : n \in 0..MaxRefRows}

\* the k-th row a SELECT of arity columns matches
Row(k, arity) == [j \in 1..arity |-> <<"v">> \o IntToStr(k) \o Ctx.dot \o IntToStr(j)]

Rows(n, arity) == [k \in 1..n |-> Row(k, arity)]

Outcomes == {"ok", "connect", "execute"}

\* the names an AliasName is made of and asked about
N_n == <<"n">>
N_a1 == <<"a", "1">>
N_a2 == <<"a", "2">>
AliasNames == {AliasName(N_n, al) : al \in {<<>>, <<N_a1>>, <<N_a1, N_a2>>, <<N_a2, N_a1>>}}
AliasArgs == {N_n, N_a1, N_a2}

\* ------------------------------------------------------------ state

VARIABLES
    contexts,   \* APIController.contexts
    page_lim,   \* APIController.page_lim
    req,        \* the request being served, or served last
    resp,       \* its result: [kind |-> "none"] while it is served
    matched,    \* the rows the last SELECT's conditions matched at the server
    sent,       \* the statements this request passed to dbc.query, in order
    applied,    \* those of them the server executed
    pc,         \* "idle", "post" inside context_post_single's loop, or "done"
    sqls,       \* context_post_single's sqls
    api_pack,   \* context_post_single's api_pack
    target      \* the object a method was called on directly, as the call left it

vars == <<contexts, page_lim, req, resp, matched, sent, applied, pc, sqls, api_pack,
          target>>

NoTarget == [t |-> "none"]

NoResp == [kind |-> "none", payload |-> Msg("", <<>>), status |-> 0, exc |-> ""]

\* the page limit the controller is built with when paging is on
PageLim == 2

\* the contexts the controller is built with: one compiled per root table
CompiledContexts == [i \in 1..Len(RootTables) |-> APIContext(Schema[RootTables[i]])]

\* APIContext(schema, table) for each table of the schema
SchemaContexts == [i \in 1..Len(Schema) |-> APIContext_init(Schema[i])]

\* the tables of the schema the constructor returns a context for
Compilable == {i \in 1..Len(Schema) : SchemaContexts[i].exc = ""}

\* the bodies context_post_single hands to pack_single (line 222): no
\* flattened field but a primary key is missing
AcceptedBodies(self) ==
    {b \in DirectBodies(self) : MissingField(flat_fields(self), b) = 0}

Init ==
    /\ contexts = CompiledContexts
    /\ page_lim \in {0, PageLim}
    /\ req = [op |-> "none"]
    /\ resp = NoResp
    /\ matched = <<>>
    /\ sent = <<>>
    /\ applied = <<>>
    /\ pc = "idle"
    /\ sqls = <<>>
    /\ api_pack = <<>>
    /\ target = NoTarget

\* GetManyResource.on_get -> APIController.context_query_multiple
ContextQueryMultiple ==
    /\ pc = "idle"
    /\ \E context_name \in ContextNames, a \in ArgSets, pg \in PageArgs :
         \E args \in {a \o pg} :
         \E pre \in {context_query_multiple_sql(contexts, page_lim, context_name, args)} :
             /\ req' = [op |-> "context_query_multiple", context_name |-> context_name,
                        args |-> args]
             /\ IF pre.done
                THEN resp' = pre.res /\ matched' = <<>> /\ sent' = <<>> /\ applied' = <<>>
                ELSE \E outcome \in Outcomes, n \in 0..MaxRows :
                     \E context \in {contexts[FindContext(contexts, context_name)]} :
                     \E rows \in {Rows(n, Len(flat_fields(context)))} :
                     \E result \in {MySQL_query(pre.sql, outcome, rows)} :
                           /\ outcome # "ok" => n = 0
                           /\ matched' = rows
                           /\ sent' = <<pre.sql>>
                           /\ applied' = IF ServerExecutes(pre.sql, outcome)
                                         THEN <<pre.sql>> ELSE <<>>
                           /\ resp' = IF result.ok
                                      THEN context_query_multiple_result(
                                               context, page_lim, args, result.rows)
                                      ELSE Raise(result.exc)
    /\ pc' = "done"
    /\ UNCHANGED <<contexts, page_lim, sqls, api_pack, target>>

\* RESTResource.on_get -> APIController.context_query_single
ContextQuerySingle ==
    /\ pc = "idle"
    /\ \E context_name \in ContextNames, id \in {<<"1">>} :
         \E pre \in {context_query_single_sql(contexts, context_name, id)} :
             /\ req' = [op |-> "context_query_single", context_name |-> context_name,
                        id |-> id]
             /\ IF pre.done
                THEN resp' = pre.res /\ matched' = <<>> /\ sent' = <<>> /\ applied' = <<>>
                ELSE \E outcome \in Outcomes, n \in 0..MaxRows :
                     \E context \in {contexts[FindContext(contexts, context_name)]} :
                     \E rows \in {Rows(n, Len(flat_fields(context)))} :
                     \E result \in {MySQL_query(pre.sql, outcome, rows)} :
                           /\ outcome # "ok" => n = 0
                           /\ matched' = rows
                           /\ sent' = <<pre.sql>>
                           /\ applied' = IF ServerExecutes(pre.sql, outcome)
                                         THEN <<pre.sql>> ELSE <<>>
                           /\ resp' = IF result.ok
                                      THEN context_query_single_result(context, result.rows)
                                      ELSE Raise(result.exc)
    /\ pc' = "done"
    /\ UNCHANGED <<contexts, page_lim, sqls, api_pack, target>>

\* GetManyResource.on_post -> APIController.context_post_single, lines 208-227
ContextPostSingle ==
    /\ pc = "idle"
    /\ \E context_name \in ContextNames, args \in Bodies :
         \E pre \in {context_post_single_sqls(contexts, context_name, args)} :
             /\ req' = [op |-> "context_post_single", context_name |-> context_name,
                        args |-> args]
             /\ resp' = IF pre.done THEN pre.res ELSE NoResp
             /\ pc' = IF pre.done THEN "done" ELSE "post"
             /\ sqls' = pre.sqls
             /\ api_pack' = pre.api_pack
             /\ contexts' = context_post_single_self(contexts, context_name, args)
    /\ matched' = <<>>
    /\ sent' = <<>>
    /\ applied' = <<>>
    /\ UNCHANGED <<page_lim, target>>

\* context_post_single, lines 229-232: one turn of `for s in sqls`, and the
\* return once the last statement is through
PostQuery ==
    /\ pc = "post"
    /\ \E outcome \in Outcomes :
         \E s \in {sqls[Len(sent) + 1]} :
         \E result \in {MySQL_query(s, outcome, <<>>)} :
             /\ sent' = Append(sent, s)
             /\ applied' = IF ServerExecutes(s, outcome)
                           THEN Append(applied, s) ELSE applied
             /\ resp' = IF ~result.ok THEN Raise(result.exc)
                        ELSE IF Len(sent) + 1 = Len(sqls) THEN Return(api_pack, 201)
                        ELSE resp
             /\ pc' = IF ~result.ok \/ Len(sent) + 1 = Len(sqls) THEN "done" ELSE "post"
    /\ UNCHANGED <<contexts, page_lim, req, matched, sqls, api_pack, target>>

\* RESTResource.on_delete
OnDelete ==
    /\ pc = "idle"
    /\ \E model \in ContextNames, id \in {<<"1">>},
          query_string \in {<<>>, <<"a", "=", "1">>} :
         /\ req' = [op |-> "on_delete", context_name |-> model, id |-> id,
                    query_string |-> query_string]
         /\ resp' = on_delete(query_string)
    /\ matched' = <<>>
    /\ sent' = <<>>
    /\ applied' = <<>>
    /\ pc' = "done"
    /\ UNCHANGED <<contexts, page_lim, sqls, api_pack, target>>

\* The resource method hands the result, or the exception, to the framework
\* and the request ends: the server waits for the next one.
Respond ==
    /\ pc = "done"
    /\ pc' = "idle"
    /\ req' = [op |-> "none"]
    /\ resp' = NoResp
    /\ matched' = <<>>
    /\ sent' = <<>>
    /\ applied' = <<>>
    /\ sqls' = <<>>
    /\ api_pack' = <<>>
    /\ target' = NoTarget
    /\ UNCHANGED <<contexts, page_lim>>

\* APIContext(schema, table) for any table of the schema: the constructor
\* runs gen_model (lines 38-44)
NewContext ==
    /\ pc = "idle"
    /\ \E i \in 1..Len(Schema) :
         \E r \in {APIContext_init(Schema[i])} :
             /\ req' = [op |-> "APIContext", table |-> i]
             /\ target' = [t |-> "APIContext", self |-> r.self,
                            schema |-> [Schema EXCEPT ![i].children = r.children]]
             /\ resp' = IF r.exc # "" THEN Raise(r.exc) ELSE Return(Msg("", <<>>), 0)
    /\ matched' = <<>>
    /\ sent' = <<>>
    /\ applied' = <<>>
    /\ pc' = "done"
    /\ UNCHANGED <<contexts, page_lim, sqls, api_pack>>

\* context.to_model_pack(X) and context.pack_api of its result, X the payload
\* unpack_single makes of a row
ToModelPack ==
    /\ pc = "idle"
    /\ \E c \in 1..Len(contexts), k \in 1..MaxRows :
         \E X \in {unpack_single(contexts[c], Row(k, Len(flat_fields(contexts[c]))))} :
         \E r \in {to_model_pack(contexts[c], X)} :
             /\ req' = [op |-> "to_model_pack", context_name |-> contexts[c].name,
                        pack |-> X]
             /\ resp' = IF r.ok THEN Return(Dict(pack_api(contexts[c], r.node)), 0)
                        ELSE Raise(r.exc)
    /\ matched' = <<>>
    /\ sent' = <<>>
    /\ applied' = <<>>
    /\ pc' = "done"
    /\ UNCHANGED <<contexts, page_lim, sqls, api_pack, target>>

\* context.pack_single(d) on the context of any table of the schema
PackSingle ==
    /\ pc = "idle"
    /\ \E i \in Compilable :
         \E self \in {SchemaContexts[i].self} :
         \E d \in DirectBodies(self) :
         \E r \in {pack_single(self, d)} :
             /\ req' = [op |-> "pack_single", table |-> i, d |-> d]
             /\ resp' = IF r.ok THEN Return(Dict(r.node), 0) ELSE Raise(r.exc)
    /\ matched' = <<>>
    /\ sent' = <<>>
    /\ applied' = <<>>
    /\ pc' = "done"
    /\ UNCHANGED <<contexts, page_lim, sqls, api_pack, target>>

\* context.post_sql_parts(packed), packed the result of pack_single(d)
PostSqlParts ==
    /\ pc = "idle"
    /\ \E i \in Compilable :
         \E self \in {SchemaContexts[i].self} :
         \E d \in AcceptedBodies(self) :
         \E packed \in {pack_single(self, d).node} :
         \E r \in {post_sql_parts(self, packed)} :
             /\ req' = [op |-> "post_sql_parts", table |-> i, d |-> d,
                        packed |-> packed]
             /\ resp' = IF r.ok THEN Return(List(r.sql), 0) ELSE Raise(r.exc)
    /\ matched' = <<>>
    /\ sent' = <<>>
    /\ applied' = <<>>
    /\ pc' = "done"
    /\ UNCHANGED <<contexts, page_lim, sqls, api_pack, target>>

\* context.del_sql_parts(packed), packed the result of pack_single(d)
DelSqlParts ==
    /\ pc = "idle"
    /\ \E i \in Compilable :
         \E self \in {SchemaContexts[i].self} :
         \E d \in AcceptedBodies(self) :
         \E packed \in {pack_single(self, d).node} :
             /\ req' = [op |-> "del_sql_parts", table |-> i, d |-> d,
                        packed |-> packed]
             /\ resp' = Return(List(del_sql_parts(self, packed)), 0)
    /\ matched' = <<>>
    /\ sent' = <<>>
    /\ applied' = <<>>
    /\ pc' = "done"
    /\ UNCHANGED <<contexts, page_lim, sqls, api_pack, target>>

\* context.unpack_single(row) on the context of any table of the schema,
\* row of the arity of the context's SELECT
UnpackSingle ==
    /\ pc = "idle"
    /\ \E i \in Compilable, k \in 1..MaxRows :
         \E self \in {SchemaContexts[i].self} :
         \E row \in {Row(k, Len(flat_fields(self)))} :
             /\ req' = [op |-> "unpack_single", table |-> i, row |-> row]
             /\ resp' = Return(Dict(unpack_single(self, row)), 0)
    /\ matched' = <<>>
    /\ sent' = <<>>
    /\ applied' = <<>>
    /\ pc' = "done"
    /\ UNCHANGED <<contexts, page_lim, sqls, api_pack, target>>

\* MySQL.get_schema from line 181 on: the pass over the foreign-key listing
GetSchema ==
    /\ pc = "idle"
    /\ \E ref_rows \in RefListings :
         \E r \in {get_schema_refs(BuiltSchema, ref_rows, 1, Unbound, Unbound)} :
             /\ req' = [op |-> "get_schema", ref_rows |-> ref_rows]
             /\ target' = [t |-> "schema", dbs |-> r.dbs]
             /\ resp' = IF r.exc # "" THEN Raise(r.exc) ELSE Return(Msg("", <<>>), 0)
    /\ matched' = <<>>
    /\ sent' = <<>>
    /\ applied' = <<>>
    /\ pc' = "done"
    /\ UNCHANGED <<contexts, page_lim, sqls, api_pack>>

\* AliasName.remove_alias(alias) on an AliasName
RemoveAlias ==
    /\ pc = "idle"
    /\ \E self \in AliasNames, alias \in AliasArgs :
         \E r \in {remove_alias(self, alias)} :
             /\ req' = [op |-> "remove_alias", self |-> self, alias |-> alias]
             /\ target' = [t |-> "AliasName", self |-> r.self]
             /\ resp' = IF r.exc # "" THEN Raise(r.exc) ELSE Return(Msg("", <<>>), 0)
    /\ matched' = <<>>
    /\ sent' = <<>>
    /\ applied' = <<>>
    /\ pc' = "done"
    /\ UNCHANGED <<contexts, page_lim, sqls, api_pack>>

Next ==
    \/ ContextQueryMultiple
    \/ ContextQuerySingle
    \/ ContextPostSingle
    \/ PostQuery
    \/ OnDelete
    \/ NewContext
    \/ ToModelPack
    \/ PackSingle
    \/ PostSqlParts
    \/ DelSqlParts
    \/ UnpackSingle
    \/ GetSchema
    \/ RemoveAlias
    \/ Respond

Spec == Init /\ [][Next]_vars

\* ------------------------------------------------------------ properties

\* a request of operation op has been served and its result is in resp
Served(op) == pc = "done" /\ req.op = op

\* the request names a context the controller has
KnownContext == \E i \in 1..Len(contexts) : contexts[i].name = req.context_name

\* the context the request names
ReqContext ==
    contexts[CHOOSE i \in 1..Len(contexts) : contexts[i].name = req.context_name]

\* the display names of the context's flattened fields
ReqFieldNames == {flat_fields(ReqContext)[i].api_name :
                      i \in 1..Len(flat_fields(ReqContext))}

\* any of the request's parameters has key k
ReqHas(k) == \E i \in 1..Len(req.args) : req.args[i].k = k

\* the value of the request's parameter k
ReqArg(k) == req.args[CHOOSE i \in 1..Len(req.args) : req.args[i].k = k].v

\* C1: with paging on (page_lim = L > 0) and a query that matches N rows,
\* context_query_multiple with page = p returns 200 with exactly the rows at
\* positions (p-1)*L .. min(p*L, N)-1 of the ordered result when (p-1)*L < N,
\* a final partial page included, and 404 when (p-1)*L >= N.
C1_PagingBoundary ==
    (Served("context_query_multiple") /\ page_lim > 0 /\ applied # <<>>) =>
        LET L == page_lim
            N == Len(matched)
            p == StrToInt(ReqArg(Ctl.page))
            last == IF p * L < N THEN p * L ELSE N
        IN  IF (p - 1) * L < N
            THEN resp = Return(List([i \in 1..(last - (p - 1) * L) |->
                                        unpack_single(ReqContext,
                                                      matched[(p - 1) * L + i])]), 200)
            ELSE resp.kind = "return" /\ resp.status = 404

\* C2: for a known context, a context_query_multiple request holding a key
\* that, with one trailing '_comp' taken off, is neither a flattened field's
\* display name nor order_by, order_dir, page or q returns 400, whatever the
\* other parameters are.
C2_UnknownKeyRefused ==
    (/\ Served("context_query_multiple")
     /\ KnownContext
     /\ \E i \in 1..Len(req.args) :
            LET key == req.args[i].k
                base == IF Len(key) >= Len(Ctl.comp) /\ TakeLast(key, Len(Ctl.comp)) = Ctl.comp
                        THEN DropLast(key, Len(Ctl.comp))
                        ELSE key
            IN  /\ base \notin ReqFieldNames
                /\ base \notin {Ctl.order_by, Ctl.order_dir, Ctl.page, Ctl.q})
        => (resp.kind = "return" /\ resp.status = 400)

\* the request's ordering parameters are not acceptable: one of order_by and
\* order_dir without the other, or both with an order_by that names no field
\* or an order_dir that in upper case is neither ASC nor DESC
BadOrder ==
    \/ ReqHas(Ctl.order_by) /\ ~ReqHas(Ctl.order_dir)
    \/ ReqHas(Ctl.order_dir) /\ ~ReqHas(Ctl.order_by)
    \/ /\ ReqHas(Ctl.order_by) /\ ReqHas(Ctl.order_dir)
       /\ \/ ReqArg(Ctl.order_by) \notin ReqFieldNames
          \/ Upper(ReqArg(Ctl.order_dir)) \notin {Ctl.ASC, Ctl.DESC}

\* C3: for a known context, a context_query_multiple request with exactly one
\* of order_by / order_dir returns 400; with both it returns 400 when order_by
\* is no known field or order_dir, case-insensitively, is neither ASC nor
\* DESC; in all these cases no backend query is issued.
C3_OrderValidation ==
    (Served("context_query_multiple") /\ KnownContext /\ BadOrder)
        => (resp.kind = "return" /\ resp.status = 400 /\ sent = <<>>)

\* an order_dir of 'sideways' next to a valid order_by, on a request that is
\* otherwise in order, has been answered
C3_Witness ==
    /\ Served("context_query_multiple") /\ KnownContext
    /\ page_lim = 0
    /\ Len(req.args) = 2
    /\ ReqHas(Ctl.order_by) /\ ReqArg(Ctl.order_by) \in ReqFieldNames
    /\ ReqHas(Ctl.order_dir) /\ Upper(ReqArg(Ctl.order_dir)) \notin {Ctl.ASC, Ctl.DESC}
    /\ resp.status = 400

\* C4: context_query_multiple, context_query_single and context_post_single
\* each return 404 when no context has exactly the requested name, before any
\* other parameter is validated and before any backend query is issued.
C4_UnknownContext ==
    (/\ pc = "done"
     /\ req.op \in {"context_query_multiple", "context_query_single",
                    "context_post_single"}
     /\ ~KnownContext)
        => /\ resp.kind = "return" /\ resp.status = 404
           /\ resp.payload = Msg("Bad model/context requested", req.context_name)
           /\ sent = <<>>

\* a list request for an unknown context whose parameters would be refused
\* for a known one (an unknown key, no page although paging is on) has been
\* answered 404
C4_Witness ==
    /\ Served("context_query_multiple") /\ ~KnownContext
    /\ page_lim > 0 /\ ~ReqHas(Ctl.page) /\ ReqHas(N_zz)
    /\ resp.status = 404

\* C5: context_query_single returns 404 when the backend returns no row, 200
\* with the unpacked row when it returns exactly one, and 500 when it returns
\* more than one; it never answers with one row picked out of several.
C5_SingleRowOnly ==
    (Served("context_query_single") /\ applied # <<>>) =>
        /\ resp.kind = "return"
        /\ Len(matched) = 0 => resp.status = 404
        /\ Len(matched) = 1 =>
               resp = Return(unpack_single(ReqContext, matched[1]), 200)
        /\ Len(matched) > 1 =>
               /\ resp.status = 500
               /\ resp.payload = Msg("Found more than expected contexts", <<>>)

\* the backend has returned several rows to a context_query_single
C5_Witness ==
    /\ Served("context_query_single") /\ applied # <<>>
    /\ Len(matched) > 1
    /\ resp.status = 500

\* the non-primary flattened fields whose display name the body lacks
ReqMissing ==
    {i \in 1..Len(flat_fields(ReqContext)) :
        /\ flat_fields(ReqContext)[i].key # Ctl.PRI
        /\ ~ReqHas(flat_fields(ReqContext)[i].api_name)}

\* C6: context_post_single returns 400 with a message naming the field when
\* the body lacks the display name of a flattened field that is no primary
\* key, and then no statement is submitted to the backend.
C6_MissingFieldRefused ==
    (Served("context_post_single") /\ KnownContext /\ ReqMissing # {}) =>
        /\ resp.kind = "return" /\ resp.status = 400
        /\ resp.payload.text = "Missing required arg in body"
        /\ \E i \in ReqMissing : resp.payload.arg = flat_fields(ReqContext)[i].api_name
        /\ sent = <<>>

\* a create whose body holds the root's own column but not the column of the
\* related table has been refused
C6_Witness ==
    /\ Served("context_post_single") /\ KnownContext
    /\ ReqHas(Nm.nm) /\ ~ReqHas(Nm.rid \o API_REL_CHAR \o Nm.nm)
    /\ ReqMissing # {}
    /\ resp.status = 400 /\ resp.payload.arg = Nm.rid \o API_REL_CHAR \o Nm.nm

\* C7: when the body supplies every non-primary flattened field,
\* context_post_single submits each statement of post_sql_parts to the
\* backend once, in list order, and only then returns the display-named
\* payload with 201 (the backend executing what it is sent).
C7_CreateSubmitsAll ==
    (/\ Served("context_post_single") /\ KnownContext /\ ReqMissing = {}
     /\ applied = sent)
        => /\ resp.kind = "return" /\ resp.status = 201
           /\ resp.payload = api_pack
           /\ sent = sqls /\ sent # <<>>

\* C8: if the backend fails on the N-th of the M insert statements of one
\* create, statements 1..N-1 have been submitted and stay executed,
\* statements N+1..M are never submitted, and the failure reaches the caller
\* in place of a 201 result.
C8_NoRollbackOnFailure ==
    (req.op = "context_post_single" /\ pc \in {"post", "done"}) =>
        /\ Len(sent) <= Len(sqls) /\ sent = SubSeq(sqls, 1, Len(sent))
        /\ applied = sent \/ applied = SubSeq(sent, 1, Len(sent) - 1)
        /\ applied # sent => (pc = "done" /\ resp.kind = "raise")
        /\ (resp.kind = "return" /\ resp.status = 201) => applied = sqls

\* the second of the two statements of a create has failed: the first is
\* executed, and the caller gets the failure
C8_Witness ==
    /\ Served("context_post_single")
    /\ Len(sqls) = 2 /\ sent = sqls /\ applied = <<sqls[1]>>
    /\ resp.kind = "raise"

\* C9: the controller has a delete(context_name, id) operation that returns
\* a (payload, status) pair, so that RESTResource.on_delete with an empty
\* query string ends with the status of that operation, 404 for an unknown
\* context, and not with a failure inside the adapter.
C9_DeleteReturnsStatus ==
    (Served("on_delete") /\ req.query_string = <<>>) =>
        /\ resp.kind = "return"
        /\ ~KnownContext => resp.status = 404

\* C10: a structured-filter request (no q) to a known context holding a
\* parameter '<key>_comp' whose value is none of EQ, LIKE, GT, LT, GTE, LTE,
\* NE returns 400, with or without the sibling parameter '<key>'.
C10_BadComparatorRefused ==
    (/\ Served("context_query_multiple") /\ KnownContext
     /\ ~ReqHas(Ctl.q)
     /\ \E i \in 1..Len(req.args) :
            /\ Len(req.args[i].k) > Len(Ctl.comp)
            /\ TakeLast(req.args[i].k, Len(Ctl.comp)) = Ctl.comp
            /\ req.args[i].v \notin {Ctl.EQ, Ctl.LIKE, Ctl.GT, Ctl.LT, Ctl.GTE, Ctl.LTE, Ctl.NE})
        => (resp.kind = "return" /\ resp.status = 400)

\* the comparator the request selects for key: the symbol of '<key>_comp'
\* when that parameter is given, ' = ' otherwise
ReqComp(key) ==
    IF ReqHas(key \o Ctl.comp) THEN comp_to_symbol(ReqArg(key \o Ctl.comp)) ELSE Ctl.c_eq

\* statement sql holds a predicate '<alias of f> <op> <value>' for the
\* request's parameter key, the value bare, quoted, or quoted between '%'
HasPredicate(sql, f, key) ==
    \/ Contains(sql, f.sql_name \o ReqComp(key) \o ReqArg(key))
    \/ Contains(sql, f.sql_name \o ReqComp(key) \o Ctl.dq \o ReqArg(key) \o Ctl.dq)
    \/ Contains(sql, f.sql_name \o ReqComp(key) \o Ctl.dq_pct \o ReqArg(key)
                         \o <<"%", "\"">>)

\* C11: in structured-filter mode (no q), for every request parameter whose
\* key is the display name of a flattened field, whatever characters the
\* name contains, the statement context_query_multiple submits holds a
\* predicate '<field sql alias> <op> <value>' for that field, <op> being '='
\* unless '<key>_comp' selects another comparator.
C11_EveryFieldKeyFilters ==
    (/\ Served("context_query_multiple")
     /\ KnownContext
     /\ ~ReqHas(Ctl.q)
     /\ sent # <<>>
     /\ \A i \in 1..Len(req.args) : ReqComp(req.args[i].k) # None)
        => \A i \in 1..Len(req.args) :
               \A j \in 1..Len(flat_fields(ReqContext)) :
                   flat_fields(ReqContext)[j].api_name = req.args[i].k
                       => HasPredicate(sent[1], flat_fields(ReqContext)[j], req.args[i].k)

\* C12: for every context, of any relation depth, and every X shaped like a
\* valid API payload of it, pack_api(to_model_pack(X)) returns X.
C12_RenameRoundTrip ==
    Served("to_model_pack")
        => (resp.kind = "return" /\ resp.payload = Dict(req.pack))

\* the tables the relations of table i lead to
RelTables(i) ==
    {Schema[i].children[j].relation[1] :
         j \in {k \in 1..Len(Schema[i].children) : Schema[i].children[k].relation # <<>>}}

\* the tables reached from those of S by at most n relations
RECURSIVE Reached(_, _)
Reached(S, n) ==
    IF n = 0 THEN S ELSE Reached(S \cup UNION {RelTables(j) : j \in S}, n - 1)

\* the foreign-key graph of root table i contains a cycle
CyclicRoot(i) ==
    \E j \in Reached({i}, Len(Schema)) : j \in Reached(RelTables(j), Len(Schema))

\* the constructor has been called on a root table with an acyclic
\* foreign-key graph
Compiled == Served("APIContext") /\ ~CyclicRoot(req.table)

\* C13: after compiling a context for a root table with an acyclic
\* foreign-key graph, the i-th entry (0-based) of the joined-table list has
\* alias 't' followed by i+1, the clone of the root table is at index 0, and
\* the aliases follow discovery order with none used twice.
C13_AliasesSequential ==
    Compiled
        => /\ resp.kind = "return"
           /\ target.self.tables[1].name = Schema[req.table].name
           /\ \A i \in 1..Len(target.self.tables) :
                  target.self.tables[i].db_name = <<"t">> \o IntToStr(i)
           /\ \A i, j \in 1..Len(target.self.tables) :
                  i # j => target.self.tables[i].db_name # target.self.tables[j].db_name

\* table p has been compiled: r is joined twice, under c and under p itself
C13_Witness ==
    /\ Compiled
    /\ Len(target.self.tables) = 4
    /\ target.self.tables[3].name = Nm.r
    /\ target.self.tables[4].name = Nm.r

\* C14: after compile there is one join clause per relation followed (the
\* joins are one fewer than the joined tables), and the k-th clause (0-based)
\* reads '<alias of the table owning the foreign key>.<fk column> =
\* t(k+2).<referenced column>', t(k+2) being the alias of the clone of the
\* table the foreign key leads to.
C14_JoinPerRelation ==
    Compiled
        => /\ Len(target.self.joins) = Len(target.self.tables) - 1
           /\ \A k \in 1..Len(target.self.joins) :
                  \E o \in 1..k :
                      \E f \in {target.self.tables[o].children[j] :
                                   j \in 1..Len(target.self.tables[o].children)} :
                          /\ f.relation # <<>>
                          /\ target.self.tables[k + 1].name = RelationParent(f).name
                          /\ target.self.tables[k + 1].db_name = <<"t">> \o IntToStr(k + 1)
                          /\ target.self.joins[k] =
                                 target.self.tables[o].db_name \o Ctx.dot \o f.name
                                     \o <<" ", "=", " ">>
                                     \o target.self.tables[k + 1].db_name
                                     \o Ctx.dot \o Relation(f).name

\* table p has been compiled into three join clauses, the last of them owned
\* by the root although two tables were joined in between
C14_Witness ==
    /\ Compiled
    /\ Len(target.self.joins) = 3
    /\ SubSeq(target.self.joins[3], 1, 2) = <<"t", "1">>

\* every field entry of model node parent from its i-th key on, in insertion
\* order, the entries of a '_branch' dict in the place of that dict
RECURSIVE ModelFields(_, _)
ModelFields(parent, i) ==
    IF i > Len(parent) THEN <<>>
    ELSE IF parent[i].v.t = "dict"
         THEN ModelFields(parent[i].v.d, 1) \o ModelFields(parent, i + 1)
         ELSE <<parent[i].v>> \o ModelFields(parent, i + 1)

\* C15: flat_fields() returns every non-branch field entry of the model tree
\* exactly once, foreign-key fields with a sibling '_branch' sub-tree as well
\* as plain columns, in insertion order, each branch's fields right after
\* the field that opens the branch.
C15_FlatFieldsComplete ==
    (Served("context_query_multiple") /\ KnownContext)
        => flat_fields(ReqContext) = ModelFields(ReqContext.model, 1)

\* C16: for a context with no join clause, get_sql_parts returns text with
\* no trailing WHERE keyword, so that context_query_multiple called with no
\* filter parameter submits a statement in which no WHERE keyword is left
\* without a predicate.
C16_NoDanglingWhere ==
    (/\ Served("context_query_multiple")
     /\ KnownContext
     /\ req.args = <<>>
     /\ sent # <<>>
     /\ ReqContext.joins = <<>>)
        => /\ ~Contains(get_sql_parts(ReqContext), <<"W", "H", "E", "R", "E">>)
           /\ ~Malformed(sent[1])

\* C17: after the contexts are compiled, every query-time operation
\* (context_query_multiple, context_query_single, context_post_single and
\* the context methods they call) leaves each context's joined tables, join
\* clauses, required-field lists and model tree, every field's alias and
\* display name included, as the compile left them, whatever calls came
\* before.
C17_ContextReadOnly ==
    /\ Len(contexts) = Len(CompiledContexts)
    /\ \A i \in 1..Len(CompiledContexts) :
           /\ contexts[i].tables = CompiledContexts[i].tables
           /\ contexts[i].joins = CompiledContexts[i].joins
           /\ contexts[i].reqs = CompiledContexts[i].reqs
           /\ contexts[i].model = CompiledContexts[i].model

\* a create request went through pack_single, which filled the model's
\* slots with generated ids and body values, and was answered with 201
C17_Witness ==
    /\ Served("context_post_single")
    /\ resp.kind = "return"
    /\ resp.status = 201
    /\ \E i \in 1..Len(contexts) :
           /\ contexts[i].name = req.context_name
           /\ pack_single(contexts[i], req.args).ok
           /\ pack_single(contexts[i], req.args).node # contexts[i].model

\* table j lies on a cycle of relations
OnCycle(j) == j \in Reached(RelTables(j), Len(Schema))

\* C18: compiling a context for a root table whose foreign-key graph holds a
\* cycle (a self-referencing field, or two tables referencing each other)
\* ends with an error instead of expanding branches without bound: the
\* constructor raises, and by then no table of a cycle has been joined a
\* second time.
C18_CycleRefused ==
    (Served("APIContext") /\ CyclicRoot(req.table))
        => /\ resp.kind = "raise"
           /\ \A i, j \in 1..Len(target.self.tables) :
                  (/\ i < j
                   /\ target.self.tables[i].name = target.self.tables[j].name)
                      => \A k \in 1..Len(Schema) :
                             Schema[k].name = target.self.tables[i].name => ~OnCycle(k)

\* C19: remove_alias(a) on an AliasName whose alias list holds a returns
\* without error and afterwards is_this(a) is false (a not being the primary
\* name); when the list does not hold a the call raises ValueError and the
\* alias list is as it was.
C19_RemoveAlias ==
    Served("remove_alias")
        => IF \E i \in 1..Len(req.self.aliases) : req.self.aliases[i] = req.alias
           THEN /\ resp.kind = "return"
                /\ req.alias # req.self.name => ~is_this(target.self, req.alias)
           ELSE /\ resp.kind = "raise"
                /\ resp.exc = "ValueError"
                /\ target.self.aliases = req.self.aliases

\* C20: in the list post_sql_parts returns, the INSERT of the root table
\* is the first element and the statements of the branch tables follow it.
C20_RootStatementFirst ==
    (/\ req.op = "context_post_single"
     /\ KnownContext
     /\ sqls # <<>>)
        => SubSeq(sqls[1], 1, Len(Ctx.insert \o ReqContext.tables[1].fq_name \o Ctx.values))
               = Ctx.insert \o ReqContext.tables[1].fq_name \o Ctx.values

\* the context compiled for the table a direct call names
ReqTableContext == SchemaContexts[req.table].self

\* every slot of the packed payload holds a value of the body or a generated
\* id
AllValues(packed) ==
    \A j \in 1..Len(ModelFields(packed, 1)) : ModelFields(packed, 1)[j].t = "val"

\* s starts with head
StartsWith(s, head) == Len(s) >= Len(head) /\ SubSeq(s, 1, Len(head)) = head

\* C21: for a context of any nesting depth, post_sql_parts of a payload
\* pack_single made returns one INSERT statement per joined table of the
\* context: as many statements as joined tables, and for each joined table
\* exactly one statement that inserts into it.
C21_InsertPerTable ==
    (Served("post_sql_parts") /\ AllValues(req.packed))
        => /\ resp.kind = "return"
           /\ Len(resp.payload.rows) = Len(ReqTableContext.tables)
           /\ \A i \in 1..Len(ReqTableContext.tables) :
                  Cardinality({j \in 1..Len(resp.payload.rows) :
                                  StartsWith(resp.payload.rows[j],
                                             Ctx.insert \o ReqTableContext.tables[i].fq_name
                                                 \o Ctx.values)}) = 1

\* the number of equality signs in statement s
Equalities(s) == Cardinality({k \in 1..Len(s) : <<s[k]>> = Ctx.eq})

\* C22: del_sql_parts of a payload pack_single made returns one DELETE
\* statement per table reachable through the branches of the payload, each
\* of the form DELETE FROM <table> WHERE <pk_column>=<value> with exactly one
\* primary-key equality predicate, whatever the number of primary-key columns
\* of the table.
C22_OneKeyPredicate ==
    Served("del_sql_parts")
        => /\ resp.kind = "return"
           /\ Len(resp.payload.rows) = Len(ReqTableContext.tables)
           /\ \A j \in 1..Len(resp.payload.rows) :
                  /\ \E i \in 1..Len(ReqTableContext.tables) :
                         StartsWith(resp.payload.rows[j],
                                    Ctx.delete \o ReqTableContext.tables[i].fq_name
                                        \o Ctx.del_where)
                  /\ Equalities(resp.payload.rows[j]) = 1

\* the ids pack_single can have generated for a context: no more than one
\* per field of its model
GeneratedIds(self) == {Val(gen_id(n)) : n \in 1..Len(ModelFields(self.model, 1))}

\* in node, a part of a packed payload whose model is model_node, every
\* foreign-key field whose display name is absent from d holds an id of ids,
\* and so does the slot of the column it references in its branch
RECURSIVE FkIdsAgree(_, _, _, _)
FkIdsAgree(node, model_node, d, ids) ==
    \A i \in 1..Len(node) :
        (~Contains(node[i].k, Ctx.branch) /\ DictHas(node, node[i].k \o Ctx.branch))
            => /\ ~DictHas(d, DictGet(model_node, node[i].k).api_name)
                   => /\ node[i].v \in ids
                      /\ DictGet(DictGet(node, node[i].k \o Ctx.branch).d,
                                  Relation(DictGet(model_node, node[i].k)).fq_name)
                             = node[i].v
               /\ FkIdsAgree(DictGet(node, node[i].k \o Ctx.branch).d,
                             DictGet(model_node, node[i].k \o Ctx.branch).d, d, ids)

\* C23: in the result of pack_single(d), every foreign-key field whose
\* display name is absent from d holds in its slot the value its branch holds
\* at the slot of the referenced column, and that value is an id taken from
\* the id generator (not the value d gives for the referenced column).
C23_ForeignKeyIdShared ==
    (Served("pack_single") /\ resp.kind = "return")
        => FkIdsAgree(resp.payload.d, ReqTableContext.model, req.d,
                      GeneratedIds(ReqTableContext))

\* C24: compiling a context changes no attribute of any field or table of
\* the schema model it is compiled from: after the constructor has returned,
\* the schema is as it was read from the backend.
C24_CompileLeavesSchema ==
    (Served("APIContext") /\ resp.kind = "return") => target.schema = Schema

\* the display names of the fields of a context's model that belong to the
\* joined table of alias tid, in the order of the model
RECURSIVE NamesOfTable(_, _, _)
NamesOfTable(fields, tid, i) ==
    IF i > Len(fields) THEN <<>>
    ELSE IF StartsWith(fields[i].sql_name, tid \o Ctx.dot)
         THEN <<fields[i].api_name>> \o NamesOfTable(fields, tid, i + 1)
         ELSE NamesOfTable(fields, tid, i + 1)

\* C25: after compile the required-field structure has one list per joined
\* table, and list i holds exactly the display names of the fields of
\* joined table i, in declared order.
C25_RequiredPerTable ==
    (Served("APIContext") /\ resp.kind = "return")
        => /\ Len(target.self.reqs) = Len(target.self.tables)
           /\ \A i \in 1..Len(target.self.tables) :
                  target.self.reqs[i]
                      = NamesOfTable(ModelFields(target.self.model, 1),
                                     target.self.tables[i].db_name, 1)

\* C26: unpack_single of a row of the arity of flat_fields() returns a
\* structure in which the leaf of the flattened field at position i holds
\* row[i], for every i: its leaves, in the order of the model tree (the
\* order of flat_fields), are the values of the row.
C26_UnpackPositional ==
    Served("unpack_single")
        => ModelFields(resp.payload.d, 1) = [i \in 1..Len(req.row) |-> Val(req.row[i])]

\* every field of the branch node is exposed under the display name of the
\* field that triggers the branch, the relation character and its column
\* name, and so on below it
RECURSIVE BranchNamed(_, _)
BranchNamed(node, trigger) ==
    \A i \in 1..Len(node) :
        ~Contains(node[i].k, Ctx.branch)
            => /\ node[i].v.api_name = trigger \o API_REL_CHAR \o node[i].v.name
               /\ DictHas(node, node[i].k \o Ctx.branch)
                      => BranchNamed(DictGet(node, node[i].k \o Ctx.branch).d,
                                     node[i].v.api_name)

\* C27: in a compiled context a direct field of the root table is exposed
\* under the schema field's current display name, and a field reached
\* through foreign keys under the triggering field's display name, an
\* underscore and the column name, one segment per nesting level.
C27_ExposedNames ==
    (Served("APIContext") /\ resp.kind = "return")
        => \A j \in 1..Len(Schema[req.table].children) :
               /\ DictGet(target.self.model, Schema[req.table].children[j].fq_name).api_name
                      = Schema[req.table].children[j].api_name
               /\ Schema[req.table].children[j].relation # <<>>
                      => BranchNamed(
                             DictGet(target.self.model,
                                     Schema[req.table].children[j].fq_name \o Ctx.branch).d,
                             Schema[req.table].children[j].api_name)

\* s.split(sep), sep one character
RECURSIVE Split(_, _)
Split(s, sep) ==
    IF \A k \in 1..Len(s) : <<s[k]>> # sep THEN <<s>>
    ELSE LET k == CHOOSE k \in 1..Len(s) :
                      <<s[k]>> = sep /\ \A j \in 1..(k - 1) : <<s[j]>> # sep
         IN  <<SubSeq(s, 1, k - 1)>> \o Split(SubSeq(s, k + 1, Len(s)), sep)

\* the value a VALUES entry writes: the text between its quotes if it is
\* quoted
Unquote(v) ==
    IF Len(v) >= 2 /\ <<v[1]>> = Ctx.quote /\ <<v[Len(v)]>> = Ctx.quote
    THEN SubSeq(v, 2, Len(v) - 1)
    ELSE v

\* the values of the VALUES list of an INSERT statement into table fq_name
InsertedValues(stmt, fq_name) ==
    LET head == Len(Ctx.insert \o fq_name \o Ctx.values)
        list == Split(SubSeq(stmt, head + 1, Len(stmt) - Len(Ctx.close)), Ctx.comma)
    IN  {Val(Unquote(list[k])) : k \in 1..Len(list)}

\* C28: every value written into the VALUES list of every INSERT statement
\* generated for a body is a value of the body or an id produced by an id
\* generator, also when the body supplies a foreign-key field that has a
\* branch.
C28_InsertedValuesKnown ==
    (Served("post_sql_parts") /\ resp.kind = "return")
        => \A j \in 1..Len(resp.payload.rows) :
               \A i \in 1..Len(ReqTableContext.tables) :
                   StartsWith(resp.payload.rows[j],
                              Ctx.insert \o ReqTableContext.tables[i].fq_name \o Ctx.values)
                       => InsertedValues(resp.payload.rows[j],
                                         ReqTableContext.tables[i].fq_name)
                              \subseteq {req.d[k].v : k \in 1..Len(req.d)}
                                            \cup GeneratedIds(ReqTableContext)

\* C29: after get_schema has processed the foreign-key listing, a field has
\* a relation only if the listing holds a row from the field's qualified
\* name to the qualified name of the related field; a row whose source or
\* target column is not in the built schema assigns no relation.
C29_RelationsFromListing ==
    (Served("get_schema") /\ resp.kind = "return")
        => \A i \in 1..Len(target.dbs) :
               \A j \in 1..Len(target.dbs[i].children) :
                   target.dbs[i].children[j].relation # <<>>
                       => \E k \in 1..Len(req.ref_rows) :
                              /\ req.ref_rows[k].infq = target.dbs[i].children[j].fq_name
                              /\ req.ref_rows[k].outfq
                                     = target.dbs[target.dbs[i].children[j].relation[1]]
                                           .children[target.dbs[i].children[j].relation[2]]
                                           .fq_name

=============================================================================
